---- MODULE Spec2Model ----
(***************************************************************************)
(* A model of neuring's statistics aggregator (src/stats/aggregator.rs)    *)
(* and of the engines that feed it.                                        *)
(*                                                                         *)
(* StatsAggregator::access_step is modelled at the granularity of its      *)
(* lock operations: taking the shared lock, the staleness / window test,   *)
(* each atomic fetch_add of the update closure, and the exclusive-lock     *)
(* path, which in the source is `unimplemented!("evict based on            *)
(* threshold")` and therefore panics while holding the write guard         *)
(* (poisoning the RwLock).                                                 *)
(*                                                                         *)
(* StatsAggregator::new leaves the window empty and, the extension path    *)
(* being unimplemented, no run of the program ever stores a step.  To      *)
(* exercise the stale and in-window branches of access_step, and the       *)
(* engines' counter updates, Init also draws the window from the values    *)
(* LockedPart is meant to hold (a dense run of at most max_steps steps     *)
(* starting at first_step_idx).  The ghost variable fresh tells the        *)
(* behaviours that start from StatsAggregator::new apart.                  *)
(*                                                                         *)
(* Three engines feed the aggregator: arbitrary callers of access_step     *)
(* (Spec), syscall_sendrecv with its transmitter and receiver threads      *)
(* (SpecSendRecv), and the single-threaded io_uring echo engine with the   *)
(* kernel side of its ring (SpecEcho).  SpecPush calls Socket::push_recv   *)
(* and Socket::push_send on a ring whose kernel side is stalled, the only  *)
(* way to meet a full submission queue.                                    *)
(*                                                                         *)
(* SpecTx and SpecRecv run the transmitters and the receiver of            *)
(* syscall_sendrecv on their own, the receiver with a socket that delivers *)
(* more than echoes.  SpecCodec, SpecSendmmsg and SpecCsv run one function *)
(* each on bounded inputs: the packet codec, the sendmmsg helper and the   *)
(* CSV sink.  SpecSysEcho is syscall_echo with its echo threads, and       *)
(* SpecDiag the main loop of iouring_echo over several rings, reduced to   *)
(* its recv report.                                                        *)
(***************************************************************************)
EXTENDS Integers, Sequences, FiniteSets, TLC

(***************************************************************************)
(* Bounds of the model.                                                    *)
(***************************************************************************)
NumThreads == 3
NumCallers == 2
MaxStepSize == 2
MaxMaxSteps == 2
MaxThreshold == 1
MaxFirstStep == 1
MaxTime == 3
MaxCalls == 2
MaxPackets == 2
MaxTxBatches == 2
MaxBatch == 2
NumRings == 1
MaxRingSize == 2
Mtu == 2
MaxCqe == 3
MaxTags == 4

Threads == 1..NumThreads

\* The threads that call access_step directly when no engine is running.
Callers == 1..NumCallers
Times == 0..MaxTime

VARIABLES
  step_size,               \* StatsAggregator.step_size
  max_steps,               \* StatsAggregator.max_steps
  eviction_steps_to_keep,  \* StatsAggregator.eviction_steps_to_keep
  evict_threshold,         \* ghost: the evict_threshold StatsAggregator::new got
  first_step_idx,          \* LockedPart.first_step_idx
  steps_buf,               \* LockedPart.steps_buf (position 1 is buffer index 0)
  readers,                 \* threads holding the RwLock's shared guard
  writer,                  \* thread holding the exclusive guard, or 0
  poisoned,                \* the RwLock's poison flag
  pc,                      \* where each thread is inside access_step
  arg_time,                \* access_step's `time` argument, per thread
  arg_f,                   \* access_step's `f`: the fetch_adds of the closure
  step,                    \* the local `step`, per thread
  f_pos,                   \* next fetch_add of the closure to run, per thread
  ret,                     \* outcome of the thread's last access_step
  f_calls,                 \* ghost: times f was invoked in the last call
  f_target,                \* ghost: absolute index of the step f was given
  calls,                   \* ghost: calls made so far, per thread
  writer_log,              \* ghost: (time, stats) pairs given to stats_writer
  fresh,                   \* ghost: the window is as StatsAggregator::new left it
  batch_size,              \* syscall_sendrecv's batch_size
  packet_size,             \* syscall_sendrecv's packet_size
  tx_next_index,           \* syscall_sendrecv's shared AtomicU64 `index`
  now,                     \* the clock get_time_value_now reads
  net,                     \* per socket: datagrams sent and not yet received back
  epc,                     \* the next statement of each engine thread's loop
  loc,                     \* each engine thread's locals
  ring_size,               \* iouring_echo's ring_size
  nb_recv,                 \* iouring_echo's nb_recv
  sqpoll_idle,             \* iouring_echo's sqpoll_idle
  socks,                   \* iouring_echo's `socks`: one Socket per ring
  eloc,                    \* the echo thread's locals: ring i, slot index
  last_err,                \* per ring: the last Err a push or check_cq returned
  nb_cqe,                  \* ghost: completions the kernel has posted so far
  wire,                    \* ghost: per thread, the indices handed to the kernel
  so_error,                \* per socket: the errno its next recv fails with
  csv,                     \* the stats file of CsvStatsFile, as a list of lines
  codec,                   \* a buffer handed to write_packet and parse_packet
  mm,                      \* one call of the sendmmsg helper
  diag                     \* iouring_echo's main loop with its recv report

vars == <<step_size, max_steps, eviction_steps_to_keep, evict_threshold,
          first_step_idx,
          steps_buf, readers, writer, poisoned, pc, arg_time, arg_f, step,
          f_pos, ret, f_calls, f_target, calls, writer_log, fresh,
          batch_size, packet_size, tx_next_index, now, net, epc, loc,
          ring_size, nb_recv, sqpoll_idle, socks, eloc, last_err, nb_cqe,
          wire, so_error, csv, codec, mm, diag>>

ring_vars == <<ring_size, nb_recv, sqpoll_idle, socks, eloc, last_err, nb_cqe>>

\* The state of the specifications that run one function on its own.
unit_vars == <<csv, codec, mm, diag>>

engine_vars == <<batch_size, packet_size, tx_next_index, now, net, epc, loc,
                 ring_vars, wire, so_error, unit_vars>>

agg_params == <<step_size, max_steps, eviction_steps_to_keep, evict_threshold>>

\* The aggregator and the threads' positions inside access_step.
agg_state == <<agg_params, first_step_idx, steps_buf, readers, writer,
               poisoned, pc, arg_time, arg_f, step, f_pos, ret, f_calls,
               f_target, calls, writer_log, fresh>>

(***************************************************************************)
(* Stats: four atomic counters.  abs is a ghost field: the absolute step   *)
(* index the record was created for.                                       *)
(***************************************************************************)
Counters == {"tx_packets", "rx_packets", "rx_packets_sent_here",
             "total_latency_sent_here"}

StatsDefault(i) ==
  [tx_packets |-> 0, rx_packets |-> 0, rx_packets_sent_here |-> 0,
   total_latency_sent_here |-> 0, abs |-> i]

\* A plain store of the delta in place of the addition.
FetchAdd_Store(stats, c, d) == [stats EXCEPT ![c] = d]

\* AtomicU64::fetch_add on one counter of a step.
FetchAdd(stats, c, d) == [stats EXCEPT ![c] = @ + d]

(***************************************************************************)
(* The update closures the engines pass to access_step, as the sequence of *)
(* fetch_adds each performs.                                               *)
(***************************************************************************)
\* One packet counted whatever the number sent.
TxBump_One(n) == <<[c |-> "tx_packets", d |-> 1]>>

TxBump(n) == <<[c |-> "tx_packets", d |-> n]>>
RxBump == <<[c |-> "rx_packets", d |-> 1]>>
RxSentHere(lat) == <<[c |-> "rx_packets_sent_here", d |-> 1],
                     [c |-> "total_latency_sent_here", d |-> lat]>>

Closures == {TxBump(1), RxSentHere(1)}

(***************************************************************************)
(* The packet codec (crate::pkt): a 16-byte header holding index and       *)
(* send_time, followed by payload up to the packet size.                   *)
(***************************************************************************)
PACKET_HEAD_SIZE == 16

\* The width in bytes of a u64 header field.
U64_SIZE == 8

\* u64::to_le_bytes cut to n bytes: least significant byte first.
RECURSIVE ToLeBytes(_, _)
ToLeBytes(v, n) ==
  IF n = 0 THEN <<>> ELSE <<v % 256>> \o ToLeBytes(v \div 256, n - 1)

\* u64::from_le_bytes.
RECURSIVE FromLeBytes(_)
FromLeBytes(b) ==
  IF b = <<>> THEN 0 ELSE Head(b) + 256 * FromLeBytes(Tail(b))

\* A buffer of n bytes, each of value fill (vec![fill; n]).
Buffer(n, fill) == [k \in 1..n |-> fill]

\* The header written with its two fields in the other order.
WritePacket_Swapped(seed, index, send_time, buffer) ==
  ToLeBytes(send_time, U64_SIZE) \o ToLeBytes(index, U64_SIZE)
    \o SubSeq(buffer, PACKET_HEAD_SIZE + 1, Len(buffer))

\* write_packet(seed, index, send_time, buffer), for a buffer of at least
\* PACKET_HEAD_SIZE bytes: index at offset 0..8, send_time at 8..16, both
\* little-endian; the bytes after the header stay as the caller left them and
\* the seed changes nothing.
WritePacket(seed, index, send_time, buffer) ==
  ToLeBytes(index, U64_SIZE) \o ToLeBytes(send_time, U64_SIZE)
    \o SubSeq(buffer, PACKET_HEAD_SIZE + 1, Len(buffer))

\* parse_packet(seed, buffer): the decoded header, or "malformed" (ok = FALSE)
\* for a buffer shorter than the header.
ParsePacket(seed, buffer) ==
  IF Len(buffer) >= PACKET_HEAD_SIZE
    THEN [ok |-> TRUE,
          index |-> FromLeBytes(SubSeq(buffer, 1, U64_SIZE)),
          send_time |-> FromLeBytes(SubSeq(buffer, U64_SIZE + 1,
                                           PACKET_HEAD_SIZE))]
    ELSE [ok |-> FALSE, index |-> 0, send_time |-> 0]

(***************************************************************************)
(* StatsAggregator::new                                                    *)
(***************************************************************************)
EvictionStepsToKeep(threshold, ssize) == (threshold \div ssize) + 1

(***************************************************************************)
(* The pieces of access_step.                                              *)
(***************************************************************************)
\* A step index that falls as time grows.
StepOf_Reversed(time, ssize) == (MaxTime - time) \div ssize

StepOf(time, ssize) == time \div ssize

IsStale(s, first) == s < first

\* The buffer index taken as the absolute index (first_step_idx forgotten).
StepBufIdx_Absolute(s, first) == s

StepBufIdx(s, first) == s - first

BeyondWindow(idx, len) == idx >= len

\* A window as the type keeps it: steps_buf[k] stands for first + k - 1.
Window(first, len) == [k \in 1..len |-> StatsDefault(first + k - 1)]

\* StatsAggregator::new(ssize, msteps, threshold, writer), followed by a
\* window of len steps starting at first (0 and 0 for the constructor's own).
NewAggregator(ssize, msteps, threshold, first, len) ==
  /\ step_size = ssize
  /\ max_steps = msteps
  /\ eviction_steps_to_keep = EvictionStepsToKeep(threshold, ssize)
  /\ evict_threshold = threshold
  /\ first_step_idx = first
  /\ steps_buf = Window(first, len)
  /\ fresh = (first = 0 /\ len = 0)
  /\ readers = {}
  /\ writer = 0
  /\ poisoned = FALSE
  /\ writer_log = <<>>

InitAgg ==
  \E ssize \in 1..MaxStepSize, msteps \in 1..MaxMaxSteps,
     threshold \in 0..MaxThreshold, first \in 0..MaxFirstStep :
    \E len \in 0..msteps :
      NewAggregator(ssize, msteps, threshold, first, len)

\* The aggregator of the eviction scenario: step_size = 100 ms, max_steps = 10,
\* evict_threshold = 200 ms, times in milliseconds, freshly constructed.
InitS5 == NewAggregator(100, 10, 200, 0, 0)

S5Config == step_size = 100 /\ max_steps = 10

\* The scenario's event times: 0, 100, ..., 2000 ms.
S5Times == {100 * k : k \in 0..20}

InitThreads ==
  /\ pc = [t \in Threads |-> "idle"]
  /\ arg_time = [t \in Threads |-> 0]
  /\ arg_f = [t \in Threads |-> <<>>]
  /\ step = [t \in Threads |-> 0]
  /\ f_pos = [t \in Threads |-> 0]
  /\ ret = [t \in Threads |-> "none"]
  /\ f_calls = [t \in Threads |-> 0]
  /\ f_target = [t \in Threads |-> -1]
  /\ calls = [t \in Threads |-> 0]

(***************************************************************************)
(* syscall_sendrecv: each socket has a transmitter and a receiver thread.  *)
(* Odd threads transmit, even threads receive; threads 2s-1 and 2s share   *)
(* socket s.  epc[t] names the statement the thread runs next; a thread    *)
(* inside access_step (pc[t] # "idle") finishes that call first, and a     *)
(* thread whose access_step panicked (pc[t] = "dead") runs nothing more.   *)
(***************************************************************************)
IsTx(t) == t % 2 = 1

SockOf(t) == (t + 1) \div 2

Socks == {SockOf(t) : t \in Threads}

\* No recv has returned, or what it returned has been dealt with.
NoRecv == [ok |-> TRUE, size |-> 0, data |-> <<>>]

NoLoc == [ind |-> 0, time |-> 0, rest |-> 0, res |-> "none", recv |-> NoRecv,
          send_time |-> 0, recv_time |-> 0]

\* No io_uring engine is running: no ring exists.
InitNoRing ==
  /\ ring_size = 0
  /\ nb_recv = 0
  /\ sqpoll_idle = 0
  /\ socks = <<>>
  /\ eloc = [i |-> 0, index |-> 0]
  /\ last_err = <<>>
  /\ nb_cqe = 0

\* No function is being run on its own.
NoCsv == [open |-> FALSE, lines |-> <<>>, given |-> <<>>]

NoCodec == [at |-> "off", seed |-> 0, index |-> 0, send_time |-> 0,
            buffer |-> <<>>, hdr |-> [ok |-> FALSE, index |-> 0,
                                      send_time |-> 0]]

NoMm == [at |-> "off", n |-> 0, rest |-> 0, calls |-> 0, accepted |-> <<>>,
         res |-> "none"]

\* The main loop of iouring_echo seen from its recv report (lines 81-109):
\* m rings, the clock in seconds, the ring i the loop is at, each ring's
\* nb_active_recv, and last_recv_report.  Ghosts, per ring: since, the time
\* from which nb_active_recv + 2 < nb_recv has held without interruption
\* (-1: it does not hold); seen, the time of the ring's last service;
\* warned, whether a warning was logged for the ring since `since`.
NoDiag == [at |-> "off", m |-> 0, now |-> 0, i |-> 1, nb_recv |-> 0,
           nb_active_recv |-> <<>>, last_recv_report |-> 0, since |-> <<>>,
           seen |-> <<>>, warned |-> <<>>]

InitNoUnits ==
  /\ csv = NoCsv
  /\ codec = NoCodec
  /\ mm = NoMm
  /\ diag = NoDiag

NoWire == [t \in Threads |-> <<>>]

NoSoError == [s \in Socks |-> "none"]

\* No engine thread is running.
EngineOff ==
  /\ batch_size = 1
  /\ packet_size = PACKET_HEAD_SIZE
  /\ tx_next_index = 0
  /\ now = 0
  /\ net = [s \in Socks |-> {}]
  /\ epc = [t \in Threads |-> "off"]
  /\ loc = [t \in Threads |-> NoLoc]
  /\ wire = NoWire
  /\ so_error = NoSoError
  /\ InitNoRing

\* No engine is running: the aggregator is driven by arbitrary callers.
InitNoEngine == EngineOff /\ InitNoUnits

\* syscall_sendrecv, lines 32-41 and 109-111: index at 0, every thread at the
\* top of its loop.
InitSendRecv ==
  /\ batch_size \in 1..MaxBatch
  /\ packet_size = PACKET_HEAD_SIZE
  /\ tx_next_index = 0
  /\ now = 0
  /\ net = [s \in Socks |-> {}]
  /\ epc = [t \in Threads |-> IF IsTx(t) THEN "tx_loop" ELSE "rx_loop"]
  /\ loc = [t \in Threads |-> NoLoc]
  /\ wire = NoWire
  /\ so_error = NoSoError
  /\ InitNoRing
  /\ InitNoUnits

Init == (InitAgg \/ InitS5) /\ InitThreads /\ InitNoEngine

(***************************************************************************)
(* access_step, line 80-81: compute the step and take the shared lock.     *)
(* read() blocks while a writer holds the lock; on a poisoned lock         *)
(* read().unwrap() panics and the thread dies.                             *)
(***************************************************************************)
ASBegin(t, time, f) ==
  /\ pc[t] = "idle"
  /\ writer = 0
  /\ calls' = [calls EXCEPT ![t] = @ + 1]
  /\ arg_time' = [arg_time EXCEPT ![t] = time]
  /\ arg_f' = [arg_f EXCEPT ![t] = f]
  /\ step' = [step EXCEPT ![t] = StepOf(time, step_size)]
  /\ f_calls' = [f_calls EXCEPT ![t] = 0]
  /\ f_target' = [f_target EXCEPT ![t] = -1]
  /\ f_pos' = [f_pos EXCEPT ![t] = 0]
  /\ IF poisoned
       THEN /\ pc' = [pc EXCEPT ![t] = "dead"]
            /\ ret' = [ret EXCEPT ![t] = "panic"]
            /\ UNCHANGED readers
       ELSE /\ pc' = [pc EXCEPT ![t] = "locked"]
            /\ ret' = [ret EXCEPT ![t] = "none"]
            /\ readers' = readers \cup {t}
  /\ UNCHANGED <<agg_params, first_step_idx, steps_buf, writer, poisoned,
                 writer_log, fresh>>

(***************************************************************************)
(* access_step, lines 82-92, under the shared lock: stale -> return false; *)
(* past the window -> drop the shared lock and go for the exclusive one;   *)
(* inside the window -> invoke f on steps_buf[step_buf_idx].               *)
(***************************************************************************)
ASCheck(t) ==
  /\ pc[t] = "locked"
  /\ IF IsStale(step[t], first_step_idx)
       THEN /\ pc' = [pc EXCEPT ![t] = "idle"]
            /\ ret' = [ret EXCEPT ![t] = "false"]
            /\ readers' = readers \ {t}
            /\ UNCHANGED <<f_calls, f_target, f_pos>>
       ELSE IF BeyondWindow(StepBufIdx(step[t], first_step_idx), Len(steps_buf))
       THEN /\ pc' = [pc EXCEPT ![t] = "upgrade"]
            /\ readers' = readers \ {t}
            /\ UNCHANGED <<ret, f_calls, f_target, f_pos>>
       ELSE /\ pc' = [pc EXCEPT ![t] = "in_f"]
            /\ f_calls' = [f_calls EXCEPT ![t] = @ + 1]
            /\ f_target' = [f_target EXCEPT ![t] =
                 steps_buf[StepBufIdx(step[t], first_step_idx) + 1].abs]
            /\ f_pos' = [f_pos EXCEPT ![t] = 1]
            /\ UNCHANGED <<ret, readers>>
  /\ UNCHANGED <<agg_params, first_step_idx, steps_buf, writer, poisoned,
                 arg_time, arg_f, step, calls, writer_log, fresh>>

(***************************************************************************)
(* The closure f running on &steps_buf[step_buf_idx] (line 91): one        *)
(* fetch_add per step.  After the last one the closure returns,            *)
(* access_step returns true and the shared guard is dropped.               *)
(***************************************************************************)
ASUpdate(t) ==
  /\ pc[t] = "in_f"
  /\ LET k == StepBufIdx(step[t], first_step_idx) + 1
         op == arg_f[t][f_pos[t]]
     IN steps_buf' = [steps_buf EXCEPT ![k] = FetchAdd(@, op.c, op.d)]
  /\ IF f_pos[t] = Len(arg_f[t])
       THEN /\ pc' = [pc EXCEPT ![t] = "idle"]
            /\ ret' = [ret EXCEPT ![t] = "true"]
            /\ readers' = readers \ {t}
            /\ UNCHANGED f_pos
       ELSE /\ f_pos' = [f_pos EXCEPT ![t] = @ + 1]
            /\ UNCHANGED <<pc, ret, readers>>
  /\ UNCHANGED <<agg_params, first_step_idx, writer, poisoned, arg_time,
                 arg_f, step, f_calls, f_target, calls, writer_log, fresh>>

(***************************************************************************)
(* access_step, lines 87-88: the shared guard was dropped, now             *)
(* write().unwrap().  write() blocks until no guard is held; on a poisoned *)
(* lock the unwrap panics.                                                 *)
(***************************************************************************)
ASWriteLock(t) ==
  /\ pc[t] = "upgrade"
  /\ readers = {}
  /\ writer = 0
  /\ IF poisoned
       THEN /\ pc' = [pc EXCEPT ![t] = "dead"]
            /\ ret' = [ret EXCEPT ![t] = "panic"]
            /\ UNCHANGED writer
       ELSE /\ pc' = [pc EXCEPT ![t] = "exclusive"]
            /\ writer' = t
            /\ UNCHANGED ret
  /\ UNCHANGED <<agg_params, first_step_idx, steps_buf, readers, poisoned,
                 arg_time, arg_f, step, f_pos, f_calls, f_target, calls,
                 writer_log, fresh>>

(***************************************************************************)
(* A plausible extension that appends up to the target and applies f but   *)
(* never evicts (used to test the window bound).                           *)
(***************************************************************************)
RECURSIVE ApplyAll(_, _)
ApplyAll(stats, ops) ==
  IF ops = <<>> THEN stats
  ELSE ApplyAll(FetchAdd(stats, Head(ops).c, Head(ops).d), Tail(ops))

ASExtend_NoEvict(t) ==
  /\ pc[t] = "exclusive"
  /\ LET len == Len(steps_buf)
         idx == StepBufIdx(step[t], first_step_idx)
         ext == [k \in 1..(idx + 1) |->
                   IF k <= len THEN steps_buf[k]
                   ELSE StatsDefault(first_step_idx + k - 1)]
     IN steps_buf' = [ext EXCEPT ![idx + 1] = ApplyAll(@, arg_f[t])]
  /\ pc' = [pc EXCEPT ![t] = "idle"]
  /\ ret' = [ret EXCEPT ![t] = "true"]
  /\ f_calls' = [f_calls EXCEPT ![t] = @ + 1]
  /\ f_target' = [f_target EXCEPT ![t] = step[t]]
  /\ writer' = 0
  /\ UNCHANGED <<agg_params, first_step_idx, readers, poisoned, arg_time,
                 arg_f, step, f_pos, calls, writer_log, fresh>>

(***************************************************************************)
(* access_step, line 89, holding the exclusive guard:                      *)
(* `unimplemented!("evict based on threshold")`.  The panic unwinds        *)
(* through the write guard, which poisons the lock and releases it.  No    *)
(* step is appended, nothing is evicted, f is not invoked and stats_writer *)
(* is not called.                                                          *)
(***************************************************************************)
ASExtend(t) ==
  /\ pc[t] = "exclusive"
  /\ pc' = [pc EXCEPT ![t] = "dead"]
  /\ ret' = [ret EXCEPT ![t] = "panic"]
  /\ poisoned' = TRUE
  /\ writer' = 0
  /\ UNCHANGED <<agg_params, first_step_idx, steps_buf, readers, arg_time,
                 arg_f, step, f_pos, f_calls, f_target, calls, writer_log,
                 fresh>>

(***************************************************************************)
(* Any number of threads calling access_step with any time and closure;    *)
(* in the eviction scenario, thread 1 feeding one event per scenario time, *)
(* in increasing order.                                                    *)
(***************************************************************************)
Call(t) ==
  /\ t \in Callers
  /\ ~S5Config
  /\ calls[t] < MaxCalls
  /\ \E time \in Times, f \in Closures : ASBegin(t, time, f)
  /\ UNCHANGED engine_vars

S5Feed(t) ==
  /\ S5Config
  /\ t = 1
  /\ 100 * calls[t] \in S5Times
  /\ ASBegin(t, 100 * calls[t], TxBump(1))
  /\ UNCHANGED engine_vars

Next ==
  \E t \in Threads :
    \/ Call(t)
    \/ S5Feed(t)
    \/ ASCheck(t) /\ UNCHANGED engine_vars
    \/ ASUpdate(t) /\ UNCHANGED engine_vars
    \/ ASWriteLock(t) /\ UNCHANGED engine_vars
    \/ ASExtend(t) /\ UNCHANGED engine_vars

Spec == Init /\ [][Next]_vars

(***************************************************************************)
(* syscall_sendrecv, transmitter.  Lines 46-48 (batch_size = 1) and 62-92  *)
(* (batch): reserve batch_size indices with one fetch_add, read the clock  *)
(* and write the packets.                                                  *)
(***************************************************************************)
\* A plain load of the shared index: the counter is not advanced.
ReserveIndices_Load(cur, n) == cur

\* AtomicU64::fetch_add(n) on the shared index: the counter's new value (the
\* call returns the old one, the first index of the reserved block).
ReserveIndices(cur, n) == cur + n

\* The indices the model lets the transmitters reserve: MaxPackets, or
\* MaxTxBatches batches when no receiver runs beside them.
PacketCap ==
  IF \A t \in Threads : IsTx(t) \/ epc[t] = "off"
    THEN MaxTxBatches * batch_size ELSE MaxPackets

TxPrepare(t) ==
  /\ IsTx(t)
  /\ epc[t] = "tx_loop"
  /\ pc[t] = "idle"
  /\ tx_next_index + batch_size <= PacketCap
  /\ tx_next_index' = ReserveIndices(tx_next_index, batch_size)
  /\ loc' = [loc EXCEPT ![t] = [@ EXCEPT !.ind = tx_next_index,
                                         !.time = now,
                                         !.rest = batch_size,
                                         !.res = "none"]]
  /\ epc' = [epc EXCEPT ![t] = "tx_send"]
  /\ UNCHANGED <<batch_size, packet_size, now, net, ring_vars, wire, so_error,
                 unit_vars>>

(***************************************************************************)
(* The send helpers: `send` (lines 154-177) makes one kernel call for one  *)
(* packet; `sendmmsg` (lines 179-200, the same loop as sys.rs 32-53) calls *)
(* the kernel on the records not yet accepted until none is left.  A       *)
(* helper in progress is [n, rest, calls, accepted, res]: n records given, *)
(* rest of them still to hand over, calls kernel calls made, accepted the  *)
(* records (numbered 1..n) the kernel took, in the order it took them, res *)
(* the helper's result once it has returned ("none" before).               *)
(***************************************************************************)
Errnos == {"EMSGSIZE", "ENOBUFS"}

SendErrors == {"PacketSizeTooLarge", "IOError"}

\* What one kernel call can return for `rest` records: the number accepted,
\* at least one, or -1 with errno set.
KernelReturns(rest) ==
  {[ret |-> k, errno |-> "none"] : k \in 1..rest}
    \cup {[ret |-> -1, errno |-> e] : e \in Errnos}

\* Lines 162-167 and 189-194: the error built from errno.
SendError(errno) ==
  IF errno = "EMSGSIZE" THEN "PacketSizeTooLarge" ELSE "IOError"

\* A round that hands the kernel the slice from its first record again.
SendmmsgRound_Restart(h, out) ==
  IF out.ret = -1
    THEN [h EXCEPT !.calls = @ + 1, !.res = SendError(out.errno)]
    ELSE [h EXCEPT !.calls = @ + 1,
                   !.rest = @ - out.ret,
                   !.accepted = @ \o [j \in 1..out.ret |-> j],
                   !.res = IF h.rest = out.ret THEN "Ok" ELSE "none"]

\* One round of the loop: the kernel is given the last `rest` records; on -1
\* the helper returns the error, else the slice moves past the accepted ones
\* and the helper returns Ok(()) when the slice is empty.
SendmmsgRound(h, out) ==
  IF out.ret = -1
    THEN [h EXCEPT !.calls = @ + 1, !.res = SendError(out.errno)]
    ELSE [h EXCEPT !.calls = @ + 1,
                   !.rest = @ - out.ret,
                   !.accepted = @ \o [j \in 1..out.ret |-> h.n - h.rest + j],
                   !.res = IF h.rest = out.ret THEN "Ok" ELSE "none"]

\* Lines 70-92 (and 48): packet j of the batch, written into a zeroed buffer
\* with index ind + j - 1 and the time read at the top of the loop.
\* The batch written with its indices in descending order.
BatchPacket_Reversed(t, j) ==
  WritePacket(0, loc[t].ind + batch_size - j, loc[t].time,
              Buffer(packet_size, 0))

BatchPacket(t, j) ==
  WritePacket(0, loc[t].ind + j - 1, loc[t].time, Buffer(packet_size, 0))

(***************************************************************************)
(* One kernel call of the send at line 49 or 94-97.  The packets the       *)
(* kernel accepts go out on the socket and come back from the echo peer.   *)
(* When the helper has returned, the caller discards its result            *)
(* (`let _ =`).                                                            *)
(***************************************************************************)
TxSend(t) ==
  /\ epc[t] = "tx_send"
  /\ \E out \in KernelReturns(loc[t].rest) :
       LET h == SendmmsgRound([n |-> batch_size, rest |-> loc[t].rest,
                               calls |-> 0, accepted |-> <<>>,
                               res |-> "none"], out)
           sent == [j \in 1..Len(h.accepted) |-> BatchPacket(t, h.accepted[j])]
       IN /\ net' = [net EXCEPT ![SockOf(t)] =
                       @ \cup {sent[j] : j \in 1..Len(sent)}]
          /\ wire' = [wire EXCEPT ![t] =
                       @ \o [j \in 1..Len(sent) |-> ParsePacket(0, sent[j]).index]]
          /\ loc' = [loc EXCEPT ![t] = [@ EXCEPT !.rest = h.rest,
                                                 !.res = h.res]]
          /\ epc' = [epc EXCEPT ![t] =
               IF h.res = "none" THEN "tx_send" ELSE "tx_stat"]
  /\ UNCHANGED <<batch_size, packet_size, tx_next_index, now, ring_vars,
                 so_error, unit_vars>>

(***************************************************************************)
(* Lines 50-52 and 98-102: access_step(time, tx_packets += batch_size),    *)
(* whatever the send returned.                                             *)
(***************************************************************************)
\* The statistics stamped with a clock read after the send.
TxStat_Now(t) ==
  /\ epc[t] = "tx_stat"
  /\ ASBegin(t, now, TxBump(batch_size))
  /\ epc' = [epc EXCEPT ![t] = "tx_loop"]
  /\ UNCHANGED <<batch_size, packet_size, tx_next_index, now, net, loc,
                 ring_vars, wire, so_error,
                 unit_vars>>

TxStat(t) ==
  /\ epc[t] = "tx_stat"
  /\ ASBegin(t, loc[t].time, TxBump(batch_size))
  /\ epc' = [epc EXCEPT ![t] = "tx_loop"]
  /\ UNCHANGED <<batch_size, packet_size, tx_next_index, now, net, loc,
                 ring_vars, wire, so_error,
                 unit_vars>>

(***************************************************************************)
(* syscall_sendrecv, receiver.  The socket is connected to the peer and    *)
(* blocking: recv returns a datagram of the socket's queue, or fails with  *)
(* the errno pending on the socket.                                        *)
(***************************************************************************)
Min(a, b) == IF a <= b THEN a ELSE b

\* Line 111: recv_buf holds packet_size + 4 bytes.
RecvBufLen(psize) == psize + 4

\* recv (lines 202-220): EAGAIN / EWOULDBLOCK become Ok(0), another errno an
\* Err; with MSG_TRUNC the datagram's own length is returned, the buffer
\* holding no more than its capacity.
Recv(ev, buflen) ==
  IF ev.errno \in {"EAGAIN", "EWOULDBLOCK"} THEN NoRecv
  ELSE IF ev.errno # "none" THEN [ok |-> FALSE, size |-> 0, data |-> <<>>]
  ELSE [ok |-> TRUE, size |-> Len(ev.data),
        data |-> SubSeq(ev.data, 1, Min(Len(ev.data), buflen))]

\* Lines 113 and 118: recv returns and the receive time is read.
RxRecv(t) ==
  /\ ~IsTx(t)
  /\ epc[t] = "rx_loop"
  /\ pc[t] = "idle"
  /\ IF so_error[SockOf(t)] # "none"
       THEN /\ so_error' = [so_error EXCEPT ![SockOf(t)] = "none"]
            /\ net' = net
            /\ loc' = [loc EXCEPT ![t] = [@ EXCEPT
                         !.recv = Recv([errno |-> so_error[SockOf(t)],
                                        data |-> <<>>],
                                       RecvBufLen(packet_size)),
                         !.recv_time = now]]
       ELSE \E p \in net[SockOf(t)] :
              /\ so_error' = so_error
              /\ net' = [net EXCEPT ![SockOf(t)] = @ \ {p}]
              /\ loc' = [loc EXCEPT ![t] = [@ EXCEPT
                           !.recv = Recv([errno |-> "none", data |-> p],
                                         RecvBufLen(packet_size)),
                           !.recv_time = now]]
  /\ epc' = [epc EXCEPT ![t] = "rx_check"]
  /\ UNCHANGED <<batch_size, packet_size, tx_next_index, now, ring_vars, wire,
                 unit_vars>>

\* Line 119: recv_size != packet_size.
SizeMismatch(recv_size, psize) == recv_size # psize

\* A test that lets every send_time through.
SentAfterReceived_Never(send_time, recv_time) == FALSE

\* Line 126: send_time > recv_time.
SentAfterReceived(send_time, recv_time) == send_time > recv_time

\* Lines 114-129 and 140: what the receiver does with the recv's result.
RxVerdict(r, psize, recv_time) ==
  IF ~r.ok THEN "recv failed"
  ELSE IF SizeMismatch(r.size, psize) THEN "wrong size"
  ELSE LET hdr == ParsePacket(0, SubSeq(r.data, 1, r.size))
       IN IF ~hdr.ok THEN "malformed"
          ELSE IF SentAfterReceived(hdr.send_time, recv_time)
            THEN "sent after received"
          ELSE "accepted"

\* Lines 114-129: `continue` on a discard, else go on to the two updates.
RxCheck(t) ==
  /\ epc[t] = "rx_check"
  /\ IF RxVerdict(loc[t].recv, packet_size, loc[t].recv_time) = "accepted"
       THEN /\ loc' = [loc EXCEPT ![t] = [@ EXCEPT
                         !.send_time = ParsePacket(0, loc[t].recv.data).send_time,
                         !.recv = NoRecv]]
            /\ epc' = [epc EXCEPT ![t] = "rx_stat1"]
       ELSE /\ loc' = [loc EXCEPT ![t] = [@ EXCEPT !.recv = NoRecv,
                                                   !.recv_time = 0]]
            /\ epc' = [epc EXCEPT ![t] = "rx_loop"]
  /\ UNCHANGED <<batch_size, packet_size, tx_next_index, now, net, ring_vars,
                 wire, so_error, unit_vars>>

\* Lines 130-132: access_step(recv_time, rx_packets += 1).
RxStat1(t) ==
  /\ epc[t] = "rx_stat1"
  /\ ASBegin(t, loc[t].recv_time, RxBump)
  /\ epc' = [epc EXCEPT ![t] = "rx_stat2"]
  /\ UNCHANGED <<batch_size, packet_size, tx_next_index, now, net, loc,
                 ring_vars, wire, so_error,
                 unit_vars>>

\* Lines 133-138: access_step(send_time, rx_packets_sent_here += 1;
\* total_latency_sent_here += recv_time - send_time).
RxStat2(t) ==
  /\ epc[t] = "rx_stat2"
  /\ ASBegin(t, loc[t].send_time,
             RxSentHere(loc[t].recv_time - loc[t].send_time))
  /\ epc' = [epc EXCEPT ![t] = "rx_loop"]
  /\ UNCHANGED <<batch_size, packet_size, tx_next_index, now, net, loc,
                 ring_vars, wire, so_error,
                 unit_vars>>

\* The monotonic clock behind get_time_value_now advances.
Tick ==
  /\ now < MaxTime
  /\ now' = now + 1
  /\ UNCHANGED <<agg_params, first_step_idx, steps_buf, readers, writer, poisoned, pc,
                 arg_time, arg_f, step, f_pos, ret, f_calls, f_target, calls,
                 writer_log, fresh, batch_size, packet_size, tx_next_index,
                 net, epc, loc, ring_vars, wire, so_error,
                 unit_vars>>

\* The aggregator the engine is given: neither max_steps nor the eviction
\* threshold is read before the exclusive-lock path, so one value of each.
InitAggSR ==
  \E ssize \in 1..MaxStepSize, first \in 0..MaxFirstStep,
     len \in 0..MaxMaxSteps :
    NewAggregator(ssize, MaxMaxSteps, MaxThreshold, first, len)

InitSR == InitAggSR /\ InitThreads /\ InitSendRecv

NextSR ==
  \/ Tick
  \/ \E t \in Threads :
       \/ TxPrepare(t) /\ UNCHANGED <<agg_params, first_step_idx, steps_buf,
            readers, writer, poisoned, pc, arg_time, arg_f, step, f_pos, ret,
            f_calls, f_target, calls, writer_log, fresh>>
       \/ TxSend(t) /\ UNCHANGED <<agg_params, first_step_idx, steps_buf,
            readers, writer, poisoned, pc, arg_time, arg_f, step, f_pos, ret,
            f_calls, f_target, calls, writer_log, fresh>>
       \/ TxStat(t)
       \/ RxRecv(t) /\ UNCHANGED <<agg_params, first_step_idx, steps_buf,
            readers, writer, poisoned, pc, arg_time, arg_f, step, f_pos, ret,
            f_calls, f_target, calls, writer_log, fresh>>
       \/ RxCheck(t) /\ UNCHANGED <<agg_params, first_step_idx, steps_buf,
            readers, writer, poisoned, pc, arg_time, arg_f, step, f_pos, ret,
            f_calls, f_target, calls, writer_log, fresh>>
       \/ RxStat1(t)
       \/ RxStat2(t)
       \/ ASCheck(t) /\ UNCHANGED engine_vars
       \/ ASUpdate(t) /\ UNCHANGED engine_vars
       \/ ASWriteLock(t) /\ UNCHANGED engine_vars
       \/ ASExtend(t) /\ UNCHANGED engine_vars

SpecSendRecv == InitSR /\ [][NextSR]_vars

(***************************************************************************)
(* The transmitters of syscall_sendrecv on their own, no receiver being    *)
(* scheduled, over a window of two steps.                                  *)
(***************************************************************************)
InitTx ==
  /\ \E ssize \in 1..MaxStepSize :
       NewAggregator(ssize, MaxMaxSteps, MaxThreshold, 0, MaxMaxSteps)
  /\ InitThreads
  /\ batch_size \in 1..MaxBatch
  /\ packet_size = PACKET_HEAD_SIZE
  /\ tx_next_index = 0
  /\ now = 0
  /\ net = [s \in Socks |-> {}]
  /\ epc = [t \in Threads |-> IF IsTx(t) THEN "tx_loop" ELSE "off"]
  /\ loc = [t \in Threads |-> NoLoc]
  /\ wire = NoWire
  /\ so_error = NoSoError
  /\ InitNoRing
  /\ InitNoUnits

NextTx ==
  \/ Tick
  \/ \E t \in Threads :
       \/ TxPrepare(t) /\ UNCHANGED agg_state
       \/ TxSend(t) /\ UNCHANGED agg_state
       \/ TxStat(t)
       \/ ASCheck(t) /\ UNCHANGED engine_vars
       \/ ASUpdate(t) /\ UNCHANGED engine_vars
       \/ ASWriteLock(t) /\ UNCHANGED engine_vars
       \/ ASExtend(t) /\ UNCHANGED engine_vars

SpecTx == InitTx /\ [][NextTx]_vars

(***************************************************************************)
(* The receiver of syscall_sendrecv on its own.  Its socket's queue holds  *)
(* what the peer may have sent: echoes of packets stamped 0 and 1, a       *)
(* datagram one byte short, one longer than the receive buffer, and one    *)
(* stamped after the end of the clock; and the socket may have an error    *)
(* pending.                                                                *)
(***************************************************************************)
Foreign(psize) ==
  {WritePacket(0, 0, 0, Buffer(psize, 0)),
   WritePacket(0, 1, 1, Buffer(psize, 0)),
   Buffer(psize - 1, 0),
   Buffer(RecvBufLen(psize) + 1, 0),
   WritePacket(0, 2, MaxTime + 1, Buffer(psize, 0))}

InitRecv ==
  /\ InitAggSR
  /\ InitThreads
  /\ batch_size = 1
  /\ packet_size = PACKET_HEAD_SIZE
  /\ tx_next_index = 0
  /\ now = 0
  /\ net = [s \in Socks |-> IF \E t \in Threads : ~IsTx(t) /\ SockOf(t) = s
                              THEN Foreign(packet_size) ELSE {}]
  /\ epc = [t \in Threads |-> IF IsTx(t) THEN "off" ELSE "rx_loop"]
  /\ loc = [t \in Threads |-> NoLoc]
  /\ wire = NoWire
  /\ so_error = NoSoError
  /\ InitNoRing
  /\ InitNoUnits

\* The kernel leaves an error pending on the socket: the next recv returns -1
\* with this errno.
SockFault(s) ==
  /\ so_error[s] = "none"
  /\ \E t \in Threads : ~IsTx(t) /\ SockOf(t) = s /\ epc[t] # "off"
  /\ \E errno \in {"EAGAIN", "ECONNREFUSED"} :
       so_error' = [so_error EXCEPT ![s] = errno]
  /\ UNCHANGED <<agg_state, now, epc, ring_vars, batch_size, packet_size,
                 tx_next_index, net, loc, wire, unit_vars>>

NextRecv ==
  \/ Tick
  \/ \E s \in Socks : SockFault(s)
  \/ \E t \in Threads :
       \/ RxRecv(t) /\ UNCHANGED agg_state
       \/ RxCheck(t) /\ UNCHANGED agg_state
       \/ RxStat1(t)
       \/ RxStat2(t)
       \/ ASCheck(t) /\ UNCHANGED engine_vars
       \/ ASUpdate(t) /\ UNCHANGED engine_vars
       \/ ASWriteLock(t) /\ UNCHANGED engine_vars
       \/ ASExtend(t) /\ UNCHANGED engine_vars

SpecRecv == InitRecv /\ [][NextRecv]_vars

(***************************************************************************)
(* The io_uring echo engine (src/io_impl/iouring_echo.rs).  One Socket per *)
(* ring.  The ring itself (self.ring) is modelled by its submission queue, *)
(* the operations the kernel has taken from it and not yet completed, and  *)
(* its completion queue.  Pointers into the per-slot buffers are modelled  *)
(* by the slot index they point at.  Completion entries carry, besides     *)
(* user_data and result, ghost fields naming the operation they complete.  *)
(***************************************************************************)
SOCKADDR_STORAGE_SIZE == 128

SOCKADDR_IN_SIZE == 16

Rings == 1..NumRings

\* ring_size > 0 && ring_size.is_power_of_two()
IsPowerOfTwo(n) == \E e \in 0..n : 2^e = n

RingSizes == {k \in 1..MaxRingSize : IsPowerOfTwo(k)}

Slots(k) == 0..(k - 1)

NoErr == <<"Ok">>

\* AppError::IoUringFull as push_entry builds it.
IoUringFull(request_type, index) == <<"IoUringFull", request_type, index>>

ZeroMsghdr ==
  [msg_name |-> -1, msg_namelen |-> 0, msg_iov |-> -1, msg_iovlen |-> 0,
   msg_control |-> 0, msg_controllen |-> 0, msg_flags |-> {}]

\* Socket::new: zeroed buffers, every slot RecvInProgress (the zero state).
NewSocket(k, mtu, dbg) ==
  [mtu |-> mtu,
   msghdr_buf |-> [i \in Slots(k) |-> ZeroMsghdr],
   iovec_buf |-> [i \in Slots(k) |-> [iov_base |-> -1, iov_len |-> 0]],
   sockaddr_buf |-> [i \in Slots(k) |-> 0],
   state_buf |-> [i \in Slots(k) |-> "RecvInProgress"],
   nb_active_recv |-> 0,
   debug |-> dbg,
   request_tags |-> <<>>,
   next_request_tag |-> 0,
   ring |-> [cap |-> k, sq |-> <<>>, inflight |-> <<>>, cq |-> <<>>]]

\* HashMap::remove
MapRemove(m, key) == [x \in (DOMAIN m) \ {key} |-> m[x]]

\* make_user_data: a fresh tag recorded in request_tags (debug builds), or
\* the slot index itself.
MakeUserData(sk, index, request_type) ==
  IF sk.debug
    THEN [ud |-> sk.next_request_tag,
          sock |-> [sk EXCEPT
                      !.next_request_tag = @ + 1,
                      !.request_tags = (sk.next_request_tag :>
                         [index |-> index, request_type |-> request_type])
                         @@ @]]
    ELSE [ud |-> index, sock |-> sk]

\* The slot index taken to be 0 whatever the completion says.
ParseUserData_Zero(sk, user_data) ==
  IF sk.debug /\ user_data \in DOMAIN sk.request_tags
    THEN [index |-> 0,
          sock |-> [sk EXCEPT !.request_tags = MapRemove(@, user_data)]]
    ELSE [index |-> 0, sock |-> sk]

\* parse_user_data: the slot index of a completion (-1: the tag is unknown,
\* where the source panics).
ParseUserData(sk, user_data) ==
  IF sk.debug
    THEN IF user_data \in DOMAIN sk.request_tags
           THEN [index |-> sk.request_tags[user_data].index,
                 sock |-> [sk EXCEPT !.request_tags = MapRemove(@, user_data)]]
           ELSE [index |-> -1, sock |-> sk]
    ELSE [index |-> user_data, sock |-> sk]

\* push_entry: tag the entry and push it on the submission queue; a full
\* queue gives Err(IoUringFull) and, in debug builds, the tag is taken back.
PushEntry(sk, op, index, request_type) ==
  LET m == MakeUserData(sk, index, request_type)
      entry == [op |-> op, slot |-> index, user_data |-> m.ud]
  IN IF Len(m.sock.ring.sq) >= m.sock.ring.cap
       THEN [ok |-> FALSE,
             err |-> IoUringFull(request_type, index),
             sock |-> IF sk.debug
                        THEN [m.sock EXCEPT
                                !.request_tags = MapRemove(@, m.ud)]
                        ELSE m.sock]
       ELSE [ok |-> TRUE,
             err |-> NoErr,
             sock |-> [m.sock EXCEPT !.ring.sq = Append(@, entry)]]

\* push_recv without the bookkeeping of nb_active_recv.
PushRecv_NoCount(sk, index) ==
  LET s1 == [sk EXCEPT
               !.iovec_buf[index] = [iov_base |-> index, iov_len |-> sk.mtu],
               !.msghdr_buf[index] =
                  [msg_name |-> index, msg_namelen |-> SOCKADDR_STORAGE_SIZE,
                   msg_iov |-> index, msg_iovlen |-> 1, msg_control |-> 0,
                   msg_controllen |-> 0, msg_flags |-> {}]]
      r == PushEntry(s1, "RecvMsg", index, "recv")
  IN IF r.ok
       THEN [r EXCEPT !.sock.state_buf[index] = "RecvInProgress"]
       ELSE r

\* push_recv that leaves the iovec as the last send left it.
PushRecv_KeepLen(sk, index) ==
  LET s1 == [sk EXCEPT
               !.msghdr_buf[index] =
                  [msg_name |-> index, msg_namelen |-> SOCKADDR_STORAGE_SIZE,
                   msg_iov |-> index, msg_iovlen |-> 1, msg_control |-> 0,
                   msg_controllen |-> 0, msg_flags |-> {}]]
      r == PushEntry(s1, "RecvMsg", index, "recv")
  IN IF r.ok
       THEN [r EXCEPT !.sock.state_buf[index] = "RecvInProgress",
                      !.sock.nb_active_recv = @ + 1]
       ELSE r

\* push_recv: reset the slot's iovec and msghdr, push a RecvMsg; on success
\* the slot is RecvInProgress and nb_active_recv is one more.
PushRecv(sk, index) ==
  LET s1 == [sk EXCEPT
               !.iovec_buf[index] = [iov_base |-> index, iov_len |-> sk.mtu],
               !.msghdr_buf[index] =
                  [msg_name |-> index, msg_namelen |-> SOCKADDR_STORAGE_SIZE,
                   msg_iov |-> index, msg_iovlen |-> 1, msg_control |-> 0,
                   msg_controllen |-> 0, msg_flags |-> {}]]
      r == PushEntry(s1, "RecvMsg", index, "recv")
  IN IF r.ok
       THEN [r EXCEPT !.sock.state_buf[index] = "RecvInProgress",
                      !.sock.nb_active_recv = @ + 1]
       ELSE r

\* push_send that leaves msg_flags as the kernel set them.
PushSend_KeepFlags(sk, index) ==
  LET r == PushEntry(sk, "SendMsg", index, "sendmsg")
  IN IF r.ok
       THEN [r EXCEPT !.sock.state_buf[index] = "SendInProgress"]
       ELSE r

\* push_send: zero the control fields and flags, push a SendMsg on the same
\* msghdr; on success the slot is SendInProgress.
PushSend(sk, index) ==
  LET s1 == [sk EXCEPT
               !.msghdr_buf[index].msg_control = 0,
               !.msghdr_buf[index].msg_controllen = 0,
               !.msghdr_buf[index].msg_flags = {}]
      r == PushEntry(s1, "SendMsg", index, "sendmsg")
  IN IF r.ok
       THEN [r EXCEPT !.sock.state_buf[index] = "SendInProgress"]
       ELSE r

(***************************************************************************)
(* The kernel side of a ring.                                              *)
(***************************************************************************)
\* io_uring_enter from submit(): the kernel takes every queued submission.
\* A submit that hands the entries to the kernel and leaves them queued.
Submit_Keep(sk) == [sk EXCEPT !.ring.inflight = @ \o sk.ring.sq]

Submit(sk) ==
  [sk EXCEPT !.ring.inflight = @ \o sk.ring.sq, !.ring.sq = <<>>]

\* Remove position k of a sequence.
RemoveAt(q, k) == SubSeq(q, 1, k - 1) \o SubSeq(q, k + 1, Len(q))

\* What a RecvMsg may find: an error (-1), or a datagram of the given length.
RecvOutcomes == {-1, 0, 1, Mtu + 1}


\* With SQPOLL the kernel's poll thread takes submissions on its own.
KernelTake(r) ==
  /\ r \in DOMAIN socks
  /\ sqpoll_idle # 0
  /\ socks[r].ring.sq # <<>>
  /\ socks' = [socks EXCEPT
                 ![r].ring.inflight = Append(@, Head(socks[r].ring.sq)),
                 ![r].ring.sq = Tail(@)]
  /\ UNCHANGED <<ring_size, nb_recv, sqpoll_idle, eloc, last_err, nb_cqe>>

\* The kernel completes one operation it holds and posts its completion.  A
\* RecvMsg that gets a datagram writes the sender's address and its length
\* into the msghdr's name buffer and sets msg_flags; the result is the
\* number of bytes stored (at most iov_len).  A SendMsg sends iov_len bytes
\* to the address in the name buffer, or fails.
KernelComplete(r) ==
  /\ r \in DOMAIN socks
  /\ nb_cqe < MaxCqe
  /\ \E k \in 1..Len(socks[r].ring.inflight) :
       LET sk == socks[r]
           e == sk.ring.inflight[k]
           hdr == sk.msghdr_buf[e.slot]
           iov_len == sk.iovec_buf[hdr.msg_iov].iov_len
           s0 == [sk EXCEPT !.ring.inflight = RemoveAt(@, k)]
           cqe(res) == [user_data |-> e.user_data, result |-> res,
                        op |-> e.op, slot |-> e.slot,
                        dest |-> sk.sockaddr_buf[hdr.msg_name],
                        len |-> iov_len]
       IN IF e.op = "RecvMsg"
            THEN \E got \in RecvOutcomes :
                   IF got < 0
                     THEN socks' = [socks EXCEPT ![r] =
                            [s0 EXCEPT !.ring.cq = Append(@, cqe(got))]]
                     ELSE socks' = [socks EXCEPT ![r] =
                            [s0 EXCEPT
                               !.ring.cq = Append(@, cqe(Min(got, iov_len))),
                               !.sockaddr_buf[hdr.msg_name] = 1,
                               !.msghdr_buf[e.slot].msg_namelen =
                                  SOCKADDR_IN_SIZE,
                               !.msghdr_buf[e.slot].msg_flags =
                                  IF got > iov_len THEN {"MSG_TRUNC"}
                                  ELSE {}]]
            ELSE \E res \in {-1, iov_len} :
                   socks' = [socks EXCEPT ![r] =
                     [s0 EXCEPT !.ring.cq = Append(@, cqe(res))]]
  /\ nb_cqe' = nb_cqe + 1
  /\ UNCHANGED <<ring_size, nb_recv, sqpoll_idle, eloc, last_err>>

(***************************************************************************)
(* iouring_echo.  The engine's single thread is thread 1.                  *)
(***************************************************************************)
sr_vars == <<batch_size, packet_size, tx_next_index, net, loc, wire,
             so_error, unit_vars>>

InitEcho ==
  /\ batch_size = 1
  /\ packet_size = PACKET_HEAD_SIZE
  /\ tx_next_index = 0
  /\ now = 0
  /\ net = [s \in Socks |-> {}]
  /\ epc = [t \in Threads |-> IF t = 1 THEN "echo_setup" ELSE "off"]
  /\ loc = [t \in Threads |-> NoLoc]
  /\ ring_size \in RingSizes
  /\ nb_recv \in 0..ring_size
  /\ sqpoll_idle \in {0, 1}
  /\ socks = <<>>
  /\ eloc = [i |-> 1, index |-> 0]
  /\ last_err = <<>>
  /\ nb_cqe = 0
  /\ wire = NoWire
  /\ so_error = NoSoError
  /\ InitNoUnits

\* A loop that stops one slot short: idx in 0..nb_recv - 1.
RECURSIVE PrePost_OneShort(_, _, _)
PrePost_OneShort(sk, idx, n) ==
  IF idx >= n - 1 THEN [ok |-> TRUE, err |-> NoErr, sock |-> sk]
  ELSE LET r == PushRecv(sk, idx)
       IN IF r.ok THEN PrePost_OneShort(r.sock, idx + 1, n) ELSE r

\* Lines 68-70: push_recv(idx)? for idx in 0..nb_recv.
RECURSIVE PrePost(_, _, _)
PrePost(sk, idx, n) ==
  IF idx >= n THEN [ok |-> TRUE, err |-> NoErr, sock |-> sk]
  ELSE LET r == PushRecv(sk, idx)
       IN IF r.ok THEN PrePost(r.sock, idx + 1, n) ELSE r

\* Lines 59-79, one socket: Socket::new, the pre-posted recvs, and the
\* explicit submit when kernel polling is off.  An Err ends iouring_echo.
EchoSetup ==
  /\ epc[1] = "echo_setup"
  /\ \E dbg \in BOOLEAN :
       /\ socks # <<>> => dbg = socks[1].debug
       /\ LET r == PrePost(NewSocket(ring_size, Mtu, dbg), 0, nb_recv)
          IN IF r.ok
               THEN /\ socks' = Append(socks,
                         IF sqpoll_idle = 0 THEN Submit(r.sock) ELSE r.sock)
                    /\ last_err' = Append(last_err, NoErr)
                    /\ epc' = [epc EXCEPT ![1] =
                         IF Len(socks) + 1 = NumRings THEN "cq_loop"
                         ELSE "echo_setup"]
               ELSE /\ socks' = Append(socks, r.sock)
                    /\ last_err' = Append(last_err, r.err)
                    /\ epc' = [epc EXCEPT ![1] = "echo_failed"]
  /\ UNCHANGED <<ring_size, nb_recv, sqpoll_idle, eloc, nb_cqe, now,
                 sr_vars, agg_state>>

\* check_cq, one turn of its loop (lines 302-344) on socket eloc.i.  With
\* SQPOLL a full submission queue makes squeue_wait block until the kernel
\* has taken an entry.  No completion: break.  Otherwise the completion is
\* handled by the state of its slot; an Err from a push ends check_cq (the
\* caller logs it, line 86-88).  In the SendInProgress branch the push_recv
\* follows the access_step (CqPushRecv).
CheckCq ==
  /\ epc[1] = "cq_loop"
  /\ pc[1] = "idle"
  /\ LET i == eloc.i
         sk == socks[i]
     IN /\ ~(sqpoll_idle # 0 /\ Len(sk.ring.sq) >= sk.ring.cap)
        /\ IF sk.ring.cq = <<>>
             THEN /\ epc' = [epc EXCEPT ![1] = "echo_submit"]
                  /\ UNCHANGED <<socks, eloc, last_err, agg_state>>
             ELSE
               LET entry == Head(sk.ring.cq)
                   p == ParseUserData([sk EXCEPT !.ring.cq = Tail(@)],
                                      entry.user_data)
                   index == p.index
               IN IF index = -1
                    THEN \* panic!("Received non-existent CEQ")
                         /\ pc' = [pc EXCEPT ![1] = "dead"]
                         /\ ret' = [ret EXCEPT ![1] = "panic"]
                         /\ socks' = [socks EXCEPT ![i] = p.sock]
                         /\ UNCHANGED <<epc, eloc, last_err, agg_params,
                              first_step_idx, steps_buf, readers, writer,
                              poisoned, arg_time, arg_f, step, f_pos,
                              f_calls, f_target, calls, writer_log, fresh>>
                  ELSE IF p.sock.state_buf[index] = "RecvInProgress"
                    THEN
                      LET s1 == [p.sock EXCEPT !.nb_active_recv = @ - 1]
                      IN IF entry.result <= 0
                           THEN
                             LET r == PushRecv(s1, index)
                             IN /\ socks' = [socks EXCEPT ![i] = r.sock]
                                /\ last_err' = IF r.ok THEN last_err
                                     ELSE [last_err EXCEPT ![i] = r.err]
                                /\ epc' = IF r.ok THEN epc
                                     ELSE [epc EXCEPT ![1] = "echo_submit"]
                                /\ eloc' = [eloc EXCEPT !.index = index]
                                /\ UNCHANGED agg_state
                           ELSE
                             LET r == PushSend(
                                   [s1 EXCEPT !.iovec_buf[index].iov_len =
                                      entry.result], index)
                             IN /\ socks' = [socks EXCEPT ![i] = r.sock]
                                /\ eloc' = [eloc EXCEPT !.index = index]
                                /\ IF r.ok
                                     THEN /\ ASBegin(1, now, RxBump)
                                          /\ UNCHANGED <<epc, last_err>>
                                     ELSE /\ last_err' = [last_err EXCEPT
                                               ![i] = r.err]
                                          /\ epc' = [epc EXCEPT ![1] =
                                               "echo_submit"]
                                          /\ UNCHANGED agg_state
                    ELSE /\ ASBegin(1, now, TxBump(1))
                         /\ socks' = [socks EXCEPT ![i] = p.sock]
                         /\ eloc' = [eloc EXCEPT !.index = index]
                         /\ epc' = [epc EXCEPT ![1] = "cq_push_recv"]
                         /\ UNCHANGED last_err
  /\ UNCHANGED <<ring_size, nb_recv, sqpoll_idle, nb_cqe, now, sr_vars>>

\* check_cq, line 341: push_recv(index)? once the access_step of the
\* SendInProgress branch has returned.
CqPushRecv ==
  /\ epc[1] = "cq_push_recv"
  /\ pc[1] = "idle"
  /\ LET i == eloc.i
         r == PushRecv(socks[i], eloc.index)
     IN /\ socks' = [socks EXCEPT ![i] = r.sock]
        /\ last_err' = IF r.ok THEN last_err
                       ELSE [last_err EXCEPT ![i] = r.err]
        /\ epc' = [epc EXCEPT ![1] =
                     IF r.ok THEN "cq_loop" ELSE "echo_submit"]
  /\ UNCHANGED <<ring_size, nb_recv, sqpoll_idle, eloc, nb_cqe, now,
                 sr_vars, agg_state>>

\* Main loop, lines 89-95: the explicit submit when kernel polling is off,
\* then on to the next socket.
EchoSubmit ==
  /\ epc[1] = "echo_submit"
  /\ socks' = [socks EXCEPT ![eloc.i] =
                 IF sqpoll_idle = 0 THEN Submit(@) ELSE @]
  /\ eloc' = [eloc EXCEPT !.i = (eloc.i % NumRings) + 1]
  /\ epc' = [epc EXCEPT ![1] = "cq_loop"]
  /\ UNCHANGED <<ring_size, nb_recv, sqpoll_idle, last_err, nb_cqe, now,
                 sr_vars, agg_state>>

\* AppError::IoUringError: the io::Error of a failed io_uring_enter.
IoUringError == <<"IoUringError">>

\* Lines 73-77 with the `?` taken: the pre-posted recvs were pushed and the
\* explicit submit failed, which ends iouring_echo.
EchoSetupFault ==
  /\ epc[1] = "echo_setup"
  /\ sqpoll_idle = 0
  /\ \E dbg \in BOOLEAN :
       /\ socks # <<>> => dbg = socks[1].debug
       /\ LET r == PrePost(NewSocket(ring_size, Mtu, dbg), 0, nb_recv)
          IN /\ r.ok
             /\ socks' = Append(socks, r.sock)
  /\ last_err' = Append(last_err, IoUringError)
  /\ epc' = [epc EXCEPT ![1] = "echo_failed"]
  /\ UNCHANGED <<ring_size, nb_recv, sqpoll_idle, eloc, nb_cqe, now,
                 sr_vars, agg_state>>

\* check_cq, lines 303-312 with a `?` taken: the kernel thread needs a
\* wakeup and submit fails, or the submission queue is full and squeue_wait
\* fails.  check_cq returns the Err; the caller logs it (lines 86-88) and
\* goes on with line 89.
CheckCqFault ==
  /\ epc[1] = "cq_loop"
  /\ pc[1] = "idle"
  /\ sqpoll_idle # 0
  /\ last_err' = [last_err EXCEPT ![eloc.i] = IoUringError]
  /\ epc' = [epc EXCEPT ![1] = "echo_submit"]
  /\ UNCHANGED <<ring_size, nb_recv, sqpoll_idle, socks, eloc, nb_cqe, now,
                 sr_vars, agg_state>>

\* Main loop, lines 89-95 with the `?` taken: the explicit submit fails and
\* iouring_echo returns the error.
EchoSubmitFault ==
  /\ epc[1] = "echo_submit"
  /\ sqpoll_idle = 0
  /\ last_err' = [last_err EXCEPT ![eloc.i] = IoUringError]
  /\ epc' = [epc EXCEPT ![1] = "echo_failed"]
  /\ UNCHANGED <<ring_size, nb_recv, sqpoll_idle, socks, eloc, nb_cqe, now,
                 sr_vars, agg_state>>

\* The aggregator the echo engine is given: step_size 1, max_steps 1,
\* evict_threshold 0, freshly constructed or holding a window.
InitAggEcho ==
  \E first \in 0..MaxFirstStep, len \in 0..1 :
    NewAggregator(1, 1, 0, first, len)

InitEchoEngine == InitAggEcho /\ InitThreads /\ InitEcho

NextEcho ==
  \/ Tick
  \/ EchoSetup
  \/ CheckCq
  \/ CqPushRecv
  \/ EchoSubmit
  \/ EchoSetupFault
  \/ CheckCqFault
  \/ EchoSubmitFault
  \/ \E r \in Rings :
       \/ KernelTake(r) /\ UNCHANGED <<now, sr_vars, epc, agg_state>>
       \/ KernelComplete(r) /\ UNCHANGED <<now, sr_vars, epc, agg_state>>
  \/ \E t \in Threads :
       \/ ASCheck(t) /\ UNCHANGED engine_vars
       \/ ASUpdate(t) /\ UNCHANGED engine_vars
       \/ ASWriteLock(t) /\ UNCHANGED engine_vars
       \/ ASExtend(t) /\ UNCHANGED engine_vars

SpecEcho == InitEchoEngine /\ [][NextEcho]_vars

(***************************************************************************)
(* push_recv and push_send called on a Socket whose kernel side is         *)
(* stalled: nothing is taken from the submission queue.  eloc records the  *)
(* call made: the socket, the slot and the method's request kind.          *)
(***************************************************************************)
InitPush ==
  /\ NewAggregator(1, 1, 0, 0, 0)
  /\ InitThreads
  /\ batch_size = 1
  /\ packet_size = PACKET_HEAD_SIZE
  /\ tx_next_index = 0
  /\ now = 0
  /\ net = [s \in Socks |-> {}]
  /\ epc = [t \in Threads |-> "off"]
  /\ loc = [t \in Threads |-> NoLoc]
  /\ ring_size \in RingSizes
  /\ nb_recv = 0
  /\ sqpoll_idle \in {0, 1}
  /\ \E dbg \in BOOLEAN :
       socks = [r \in Rings |-> NewSocket(ring_size, Mtu, dbg)]
  /\ eloc = [i |-> 1, index |-> 0, op |-> "none"]
  /\ last_err = [r \in Rings |-> NoErr]
  /\ nb_cqe = 0
  /\ wire = NoWire
  /\ so_error = NoSoError
  /\ InitNoUnits

PushRecvCall(r) ==
  /\ socks[r].next_request_tag < MaxTags
  /\ \E index \in Slots(ring_size) :
       LET res == PushRecv(socks[r], index)
       IN /\ socks' = [socks EXCEPT ![r] = res.sock]
          /\ last_err' = [last_err EXCEPT ![r] = res.err]
          /\ eloc' = [i |-> r, index |-> index, op |-> "recv"]
  /\ UNCHANGED <<ring_size, nb_recv, sqpoll_idle, nb_cqe, now, sr_vars, epc,
                 agg_state>>

PushSendCall(r) ==
  /\ socks[r].next_request_tag < MaxTags
  /\ \E index \in Slots(ring_size) :
       LET res == PushSend(socks[r], index)
       IN /\ socks' = [socks EXCEPT ![r] = res.sock]
          /\ last_err' = [last_err EXCEPT ![r] = res.err]
          /\ eloc' = [i |-> r, index |-> index, op |-> "sendmsg"]
  /\ UNCHANGED <<ring_size, nb_recv, sqpoll_idle, nb_cqe, now, sr_vars, epc,
                 agg_state>>

NextPush ==
  \E r \in Rings :
    \/ PushRecvCall(r)
    \/ PushSendCall(r)

SpecPush == InitPush /\ [][NextPush]_vars

(***************************************************************************)
(* Functions run on their own.  The aggregator and the engines are idle.   *)
(***************************************************************************)
base_vars == <<agg_state, now, epc, ring_vars, batch_size, packet_size,
               tx_next_index, net, loc, wire, so_error>>

InitIdle == NewAggregator(1, 1, 0, 0, 0) /\ InitThreads /\ EngineOff

(***************************************************************************)
(* The packet codec: a caller fills a buffer of at least PACKET_HEAD_SIZE  *)
(* bytes, write_packet writes the header into it, and parse_packet reads   *)
(* the header back from the buffer or from a slice of it too short to hold *)
(* a header.                                                               *)
(***************************************************************************)
MaxPayload == 2

\* Field values with one, two, three and four significant bytes.
CodecValues == {0, 1, 255, 256, 65535, 65536, 16777216 + 258}

InitCodec ==
  /\ InitIdle
  /\ csv = NoCsv
  /\ mm = NoMm
  /\ diag = NoDiag
  /\ \E seed \in {0, 1}, index \in CodecValues, send_time \in CodecValues,
        extra \in 0..MaxPayload, fill \in {0, 255} :
       codec = [NoCodec EXCEPT !.at = "filled", !.seed = seed,
                               !.index = index, !.send_time = send_time,
                               !.buffer = Buffer(PACKET_HEAD_SIZE + extra,
                                                 fill)]

CodecWrite ==
  /\ codec.at = "filled"
  /\ codec' = [codec EXCEPT !.at = "written",
                 !.buffer = WritePacket(codec.seed, codec.index,
                                        codec.send_time, codec.buffer)]
  /\ UNCHANGED <<base_vars, csv, mm, diag>>

CodecParse ==
  /\ codec.at = "written"
  /\ \E n \in {PACKET_HEAD_SIZE - 1, Len(codec.buffer)} :
       codec' = [codec EXCEPT !.at = "parsed",
                   !.buffer = SubSeq(codec.buffer, 1, n),
                   !.hdr = ParsePacket(codec.seed, SubSeq(codec.buffer, 1, n))]
  /\ UNCHANGED <<base_vars, csv, mm, diag>>

NextCodec == CodecWrite \/ CodecParse

SpecCodec == InitCodec /\ [][NextCodec]_vars

(***************************************************************************)
(* The sendmmsg helper called with n records (syscall_sendrecv.rs 179-200, *)
(* sys.rs 32-53), the kernel accepting any number of the records it is     *)
(* given, at least one, or failing.                                        *)
(***************************************************************************)
MaxVlen == 6

InitSendmmsg ==
  /\ InitIdle
  /\ csv = NoCsv
  /\ codec = NoCodec
  /\ diag = NoDiag
  /\ \E n \in 1..MaxVlen :
       mm = [NoMm EXCEPT !.at = "loop", !.n = n, !.rest = n]

\* One turn of `while !rest.is_empty()`.
SendmmsgCall ==
  /\ mm.at = "loop"
  /\ mm.rest > 0
  /\ \E out \in KernelReturns(mm.rest) :
       LET h == SendmmsgRound(mm, out)
       IN mm' = [h EXCEPT !.at = IF h.res = "none" THEN "loop" ELSE "returned"]
  /\ UNCHANGED <<base_vars, csv, codec, diag>>

NextSendmmsg == SendmmsgCall

SpecSendmmsg == InitSendmmsg /\ [][NextSendmmsg]_vars

(***************************************************************************)
(* The CSV sink (src/stats/csv_writer.rs).  The file is the list of its    *)
(* lines, a line the list of its comma-separated fields; a number stands   *)
(* for its decimal text.  given is a ghost: the (time, stat) pairs write   *)
(* was called with.  Buffering and the flush every second change when a    *)
(* line reaches the disk, not what it holds.                               *)
(***************************************************************************)
MaxRows == 3

\* Line 23: write!(f, "time,tx_packets\n").
CsvHeader == <<"time", "tx_packets">>

\* Lines 31-36: write!(self.f, "{},{}\n", time, stat.tx_packets.load(..)).
CsvRow(time, stat) == <<time, stat.tx_packets>>

\* Steps as the aggregator would hand them to the writer.
CsvStats ==
  {[StatsDefault(0) EXCEPT !.tx_packets = a, !.rx_packets = b,
                           !.rx_packets_sent_here = b,
                           !.total_latency_sent_here = b] : a, b \in 0..1}

InitCsv ==
  /\ InitIdle
  /\ csv = NoCsv
  /\ codec = NoCodec
  /\ mm = NoMm
  /\ diag = NoDiag

\* CsvStatsFile::new, by way of get_writer.
CsvNew ==
  /\ ~csv.open
  /\ csv' = [csv EXCEPT !.open = TRUE, !.lines = <<CsvHeader>>]
  /\ UNCHANGED <<base_vars, codec, mm, diag>>

\* CsvStatsFile::write(time, stat), by way of the closure get_writer returns.
CsvWrite ==
  /\ csv.open
  /\ Len(csv.given) < MaxRows
  /\ \E time \in 0..1, stat \in CsvStats :
       csv' = [csv EXCEPT !.lines = Append(@, CsvRow(time, stat)),
                          !.given = Append(@, [time |-> time, stat |-> stat])]
  /\ UNCHANGED <<base_vars, codec, mm, diag>>

NextCsv == CsvNew \/ CsvWrite

SpecCsv == InitCsv /\ [][NextCsv]_vars

(***************************************************************************)
(* syscall_echo: nb_sockets threads, each with its own socket, each        *)
(* looping over recvfrom, the clock, sendto and one access_step whose      *)
(* closure adds 1 to rx_packets and then, if the sendto succeeded, 1 to    *)
(* tx_packets.                                                             *)
(***************************************************************************)
\* A closure that counts the echo before the datagram.
EchoBump_TxFirst(send_ok) ==
  IF send_ok THEN <<[c |-> "tx_packets", d |-> 1],
                    [c |-> "rx_packets", d |-> 1]>>
  ELSE <<[c |-> "rx_packets", d |-> 1]>>

\* syscall_echo.rs, lines 46-51.
EchoBump(send_ok) ==
  IF send_ok THEN <<[c |-> "rx_packets", d |-> 1],
                    [c |-> "tx_packets", d |-> 1]>>
  ELSE <<[c |-> "rx_packets", d |-> 1]>>

\* recvfrom (sys.rs 81-103): -1 is an Err; otherwise the number of bytes
\* stored, which with flags = 0 is at most the buffer's length.
Recvfrom(ev, buflen) ==
  IF ev.errno # "none" THEN [ok |-> FALSE, size |-> 0, data |-> <<>>]
  ELSE [ok |-> TRUE, size |-> Min(Len(ev.data), buflen),
        data |-> SubSeq(ev.data, 1, Min(Len(ev.data), buflen))]

\* sendto (sys.rs 105-135): -1 is an Err built from errno, else Ok(()).
Sendto(out) == IF out.ret = -1 THEN SendError(out.errno) ELSE "Ok"

\* What arrives on an echo socket: a datagram of some length, or a failure
\* of the call.
EchoEvents ==
  {[errno |-> "EINTR", data |-> <<>>]}
    \cup {[errno |-> "none", data |-> Buffer(n, 0)] : n \in {1, Mtu + 1}}

\* syscall_echo: nb_sockets threads spawned (lines 26-30), each at the top
\* of its loop.
InitSysEcho ==
  /\ batch_size = 1
  /\ packet_size = PACKET_HEAD_SIZE
  /\ tx_next_index = 0
  /\ now = 0
  /\ net = [s \in Socks |-> {}]
  /\ \E nb_sockets \in 1..NumCallers :
       epc = [t \in Threads |-> IF t <= nb_sockets THEN "se_recv" ELSE "off"]
  /\ loc = [t \in Threads |-> NoLoc]
  /\ wire = NoWire
  /\ so_error = NoSoError
  /\ InitNoRing
  /\ InitNoUnits

\* Lines 32-37: recvfrom; on Err `continue`, else read the receive time.
SeRecv(t) ==
  /\ epc[t] = "se_recv"
  /\ pc[t] = "idle"
  /\ calls[t] < MaxCalls
  /\ \E ev \in EchoEvents :
       LET r == Recvfrom(ev, Mtu)
       IN /\ loc' = [loc EXCEPT ![t] = [@ EXCEPT
                       !.recv = r,
                       !.recv_time = IF r.ok THEN now ELSE @,
                       !.res = "none"]]
          /\ epc' = [epc EXCEPT ![t] = IF r.ok THEN "se_send" ELSE "se_recv"]
  /\ UNCHANGED <<batch_size, packet_size, tx_next_index, now, net, ring_vars,
                 wire, so_error, unit_vars>>

\* Lines 38-45: sendto of the bytes received, back to their source.
SeSend(t) ==
  /\ epc[t] = "se_send"
  /\ \E out \in {[ret |-> loc[t].recv.size, errno |-> "none"]}
                   \cup {[ret |-> -1, errno |-> e] : e \in Errnos} :
       loc' = [loc EXCEPT ![t] = [@ EXCEPT !.res = Sendto(out)]]
  /\ epc' = [epc EXCEPT ![t] = "se_stat"]
  /\ UNCHANGED <<batch_size, packet_size, tx_next_index, now, net, ring_vars,
                 wire, so_error, unit_vars>>

\* Lines 46-51: access_step(recv_time, rx_packets += 1 and, if the send
\* was Ok, tx_packets += 1); its result is dropped and the iteration's
\* locals go out of scope.
SeStat(t) ==
  /\ epc[t] = "se_stat"
  /\ ASBegin(t, loc[t].recv_time, EchoBump(loc[t].res = "Ok"))
  /\ epc' = [epc EXCEPT ![t] = "se_recv"]
  /\ loc' = [loc EXCEPT ![t] = NoLoc]
  /\ UNCHANGED <<batch_size, packet_size, tx_next_index, now, net,
                 ring_vars, wire, so_error, unit_vars>>

InitSE == InitAggSR /\ InitThreads /\ InitSysEcho

NextSE ==
  \/ Tick
  \/ \E t \in Threads :
       \/ SeRecv(t) /\ UNCHANGED agg_state
       \/ SeSend(t) /\ UNCHANGED agg_state
       \/ SeStat(t)
       \/ ASCheck(t) /\ UNCHANGED engine_vars
       \/ ASUpdate(t) /\ UNCHANGED engine_vars
       \/ ASWriteLock(t) /\ UNCHANGED engine_vars
       \/ ASExtend(t) /\ UNCHANGED engine_vars

SpecSysEcho == InitSE /\ [][NextSE]_vars

(***************************************************************************)
(* The recv report of iouring_echo's main loop (lines 81-109).  The loop   *)
(* services its rings in turn; check_cq leaves the ring's nb_active_recv   *)
(* at some value in 0..nb_recv; then the loop reads the clock and compares *)
(* nb_active_recv with nb_recv, against the one last_recv_report it keeps  *)
(* for all rings.  Times are in seconds.                                   *)
(***************************************************************************)
MaxSeconds == 8
DiagRings == 2
DiagNbRecv == 3

\* Line 97: Duration::from_secs(5); line 98: Duration::from_secs(1).
REPORT_AFTER == 5
REPORT_EVERY == 1

\* Line 96.
Starving(active, nbrecv) == active + 2 < nbrecv

\* Lines 96-107: the new last_recv_report and whether a warning is printed.
RecvReport(last, tnow, active, nbrecv) ==
  IF Starving(active, nbrecv)
    THEN IF tnow - last > REPORT_AFTER
           THEN [last |-> last + REPORT_EVERY, warn |-> TRUE]
           ELSE [last |-> last, warn |-> FALSE]
    ELSE [last |-> tnow, warn |-> FALSE]

\* Line 81, after the set-up of m rings, each with nb_recv recvs posted.
InitDiag ==
  /\ InitIdle
  /\ csv = NoCsv
  /\ codec = NoCodec
  /\ mm = NoMm
  /\ \E m \in 1..DiagRings :
       diag = [at |-> "loop", m |-> m, now |-> 0, i |-> 1,
               nb_recv |-> DiagNbRecv,
               nb_active_recv |-> [r \in 1..m |-> DiagNbRecv],
               last_recv_report |-> 0,
               since |-> [r \in 1..m |-> -1],
               seen |-> [r \in 1..m |-> 0],
               warned |-> [r \in 1..m |-> FALSE]]

\* Lines 84-108, one iteration of `for i in 0..nb_sockets`.
DiagService ==
  /\ diag.at = "loop"
  /\ \E a \in 0..diag.nb_recv :
       LET i == diag.i
           r == RecvReport(diag.last_recv_report, diag.now, a, diag.nb_recv)
           starving == Starving(a, diag.nb_recv)
       IN diag' = [diag EXCEPT
            !.nb_active_recv[i] = a,
            !.last_recv_report = r.last,
            !.since[i] = IF ~starving THEN -1
                         ELSE IF @ = -1 THEN diag.now ELSE @,
            !.seen[i] = diag.now,
            !.warned[i] = IF ~starving THEN FALSE
                          ELSE IF diag.since[i] = -1 THEN r.warn
                          ELSE @ \/ r.warn,
            !.i = (i % diag.m) + 1]
  /\ UNCHANGED <<base_vars, csv, codec, mm>>

\* Time passes between two iterations.
DiagTick ==
  /\ diag.at = "loop"
  /\ diag.now < MaxSeconds
  /\ diag' = [diag EXCEPT !.now = @ + 1]
  /\ UNCHANGED <<base_vars, csv, codec, mm>>

NextDiag == DiagService \/ DiagTick

SpecDiag == InitDiag /\ [][NextDiag]_vars

(***************************************************************************)
(* Properties of the aggregator.                                           *)
(***************************************************************************)
\* The thread's last access_step has completed (returned or panicked).
Done(t) == calls[t] > 0 /\ pc[t] \in {"idle", "dead"}

NoCallInProgress == \A t \in Threads : pc[t] \in {"idle", "dead"}

\* The only call made so far is one call of t, and it has completed.
OnlyCall(t) ==
  /\ calls[t] = 1
  /\ Done(t)
  /\ \A u \in Threads \ {t} : calls[u] = 0

\* The step index access_step's time argument stands for.
Target(t) == arg_time[t] \div step_size

\* C1: whenever no access_step call is in progress, the window holds at
\* most max_steps steps.
C1_WindowBounded ==
  NoCallInProgress => Len(steps_buf) <= max_steps

\* A full window after both an accepted update and an access past the window.
C1_Witness ==
  /\ NoCallInProgress
  /\ Len(steps_buf) = max_steps
  /\ \E t \in Threads : ret[t] = "true"
  /\ \E t \in Threads : ret[t] = "panic" /\ Target(t) >= first_step_idx + Len(steps_buf)

\* C2: the window is dense: position k holds the step of absolute index
\* first_step_idx + k (0-based), and whenever the update closure is invoked
\* the step it is given is the one whose absolute index is floor(t/step_size).
C2_WindowDense ==
  /\ \A k \in 1..Len(steps_buf) : steps_buf[k].abs = first_step_idx + k - 1
  /\ \A t \in Threads :
       f_calls[t] > 0 =>
         /\ f_target[t] = Target(t)
         /\ first_step_idx <= Target(t)
         /\ Target(t) < first_step_idx + Len(steps_buf)

\* An accepted update on a step that is neither the first of the window nor
\* at absolute index equal to its buffer index.
C2_Witness ==
  \E t \in Threads :
    /\ ret[t] = "true"
    /\ first_step_idx > 0
    /\ Target(t) > first_step_idx
    /\ steps_buf[Target(t) - first_step_idx + 1].abs = Target(t)

C5_ExtendAccepted ==
  \A t \in Threads :
    (fresh /\ OnlyCall(t)) =>
      /\ ret[t] = "true"
      /\ f_calls[t] = 1
      /\ Len(steps_buf) > 0
      /\ first_step_idx + Len(steps_buf) = Target(t) + 1
      /\ steps_buf[Len(steps_buf)] = ApplyAll(StatsDefault(Target(t)), arg_f[t])
      /\ \A k \in 1..(Len(steps_buf) - 1) :
           steps_buf[k] = StatsDefault(first_step_idx + k - 1)

\* C6: on a freshly constructed aggregator, after the first access_step the
\* window is the extension 0..target when that is not longer than max_steps,
\* and otherwise its last eviction_steps_to_keep steps, with first_step_idx
\* advanced by the number of steps removed.
C6_EvictOldest ==
  \A t \in Threads :
    (fresh /\ OnlyCall(t) /\ Target(t) + 1 >= eviction_steps_to_keep) =>
      IF Target(t) + 1 > max_steps
        THEN /\ first_step_idx = Target(t) + 1 - eviction_steps_to_keep
             /\ Len(steps_buf) = eviction_steps_to_keep
        ELSE /\ first_step_idx = 0
             /\ Len(steps_buf) = Target(t) + 1

\* C7: on a freshly constructed aggregator, after a first access_step whose
\* extension is longer than max_steps, the writer has been called exactly
\* once for each evicted step (those below the target's last
\* eviction_steps_to_keep), in increasing order, with the step's start time.
C7_WriterOncePerEvicted ==
  \A t \in Threads :
    (/\ fresh
     /\ OnlyCall(t)
     /\ Target(t) + 1 > max_steps
     /\ Target(t) + 1 > eviction_steps_to_keep) =>
      /\ Len(writer_log) = Target(t) + 1 - eviction_steps_to_keep
      /\ \A i \in 1..Len(writer_log) : writer_log[i].time = (i - 1) * step_size

\* C9: the eviction scenario (step_size = 100 ms, max_steps = 10,
\* evict_threshold = 200 ms, one event at each of 0, 100, ..., 2000 ms on a
\* fresh aggregator): no event aborts the feeding thread, and once all 21
\* events are fed the writer has received exactly the steps starting at
\* 0, 100, ..., 1700 ms while the window holds at most 10 steps, all starting
\* at 1800 ms or later.
C9_S5Outcome ==
  (S5Config /\ fresh) =>
    /\ pc[1] # "dead"
    /\ (Done(1) /\ calls[1] = 21) =>
         /\ Len(writer_log) = 18
         /\ \A i \in 1..Len(writer_log) : writer_log[i].time = 100 * (i - 1)
         /\ Len(steps_buf) <= 10
         /\ first_step_idx * step_size >= 1800

C11_CountersMonotonic ==
  [][\A k \in 1..Len(steps_buf) : \A j \in 1..Len(steps_buf') :
       steps_buf'[j].abs = steps_buf[k].abs =>
         \A c \in Counters : steps_buf'[j][c] >= steps_buf[k][c]]_vars

\* One step that has been updated through every one of its counters, some of
\* them more than once.
C11_Witness ==
  \E k \in 1..Len(steps_buf) :
    /\ steps_buf[k].tx_packets >= 2
    /\ steps_buf[k].rx_packets >= 1
    /\ steps_buf[k].rx_packets_sent_here >= 1
    /\ steps_buf[k].total_latency_sent_here >= 1

\* The naive reference: step i's counters after the events of the threads in
\* T, each thread having made at most one access_step call, leaving out the
\* events access_step reported as stale.
RECURSIVE NaiveStep(_, _)
NaiveStep(i, T) ==
  IF T = {} THEN StatsDefault(i)
  ELSE LET t == CHOOSE x \in T : TRUE
           rest == NaiveStep(i, T \ {t})
       IN IF calls[t] = 1 /\ ret[t] # "false" /\ Target(t) = i
            THEN ApplyAll(rest, arg_f[t])
            ELSE rest

\* The aggregator's counters for step i: the step in the window, else the
\* step handed to the writer, else nothing recorded.
AggregatorStep(i) ==
  IF \E k \in 1..Len(steps_buf) : steps_buf[k].abs = i
    THEN steps_buf[CHOOSE k \in 1..Len(steps_buf) : steps_buf[k].abs = i]
  ELSE IF \E j \in 1..Len(writer_log) : writer_log[j].stats.abs = i
    THEN writer_log[CHOOSE j \in 1..Len(writer_log) :
                      writer_log[j].stats.abs = i].stats
  ELSE StatsDefault(i)

\* C12: once the calls have completed (at most one event per thread, zero
\* counters at the start), every step's counters in the aggregator equal the
\* naive reference's for the same events, stale events left out.
C12_MatchesNaiveMap ==
  (NoCallInProgress /\ \A t \in Threads : calls[t] <= 1) =>
    \A u \in Threads : calls[u] = 1 =>
      AggregatorStep(Target(u)) = NaiveStep(Target(u), Threads)

\* The block of indices a transmitter has reserved and is sending.
Sending(t) == epc[t] \in {"tx_send", "tx_stat"}

Reserved(t) == loc[t].ind .. (loc[t].ind + batch_size - 1)

OfSlot(q, i) == {k \in 1..Len(q) : q[k].slot = i}

\* Submissions referencing slot i that are outstanding: pushed and not yet
\* consumed from the completion queue.
Outstanding(sk, i, op) ==
    Cardinality({k \in OfSlot(sk.ring.sq, i) : sk.ring.sq[k].op \in op})
  + Cardinality({k \in OfSlot(sk.ring.inflight, i) :
                   sk.ring.inflight[k].op \in op})
  + Cardinality({k \in OfSlot(sk.ring.cq, i) : sk.ring.cq[k].op \in op})

AnyOp == {"RecvMsg", "SendMsg"}

\* C14: for every ring and slot, at most one submission referencing the
\* slot is outstanding.
C14_OneSubmissionPerSlot ==
  \A r \in DOMAIN socks : \A i \in Slots(ring_size) :
    Outstanding(socks[r], i, AnyOp) <= 1

\* Two slots in use at once, one whose recv was re-submitted after its echo
\* was sent (tx_packets counted) while the other is being echoed.
C14_Witness ==
  \E r \in DOMAIN socks : \E i, j \in Slots(ring_size) :
    /\ Outstanding(socks[r], i, {"RecvMsg"}) = 1
    /\ Outstanding(socks[r], j, {"SendMsg"}) = 1
    /\ \E k \in 1..Len(steps_buf) : steps_buf[k].tx_packets >= 1

\* C15: nb_active_recv is the number of slots with an outstanding recv, and
\* lies in 0..ring_size.
C15_ActiveRecvCount ==
  \A r \in DOMAIN socks :
    /\ socks[r].nb_active_recv =
         Cardinality({i \in Slots(ring_size) :
                        Outstanding(socks[r], i, {"RecvMsg"}) > 0})
    /\ socks[r].nb_active_recv >= 0
    /\ socks[r].nb_active_recv <= ring_size

\* A recv completion has been consumed and its slot is being echoed while
\* another slot still has its recv outstanding.
C15_Witness ==
  \E r \in DOMAIN socks :
    /\ nb_recv = 2
    /\ socks[r].nb_active_recv = 1
    /\ \E i \in Slots(ring_size) : socks[r].state_buf[i] = "SendInProgress"

\* The completion check_cq is about to take, and whether this step takes it.
HeadCqe == Head(socks[eloc.i].ring.cq)

Consumes ==
  /\ epc[1] = "cq_loop"
  /\ pc[1] = "idle"
  /\ socks[eloc.i].ring.cq # <<>>
  /\ socks'[eloc.i].ring.cq = Tail(socks[eloc.i].ring.cq)

\* The step pushes exactly one submission, of the given kind, on the slot.
PushesOne(op, index) ==
  LET sq == socks[eloc.i].ring.sq
      sq2 == socks'[eloc.i].ring.sq
  IN /\ Len(sq2) = Len(sq) + 1
     /\ SubSeq(sq2, 1, Len(sq)) = sq
     /\ sq2[Len(sq2)].op = op
     /\ sq2[Len(sq2)].slot = index

\* C16: consuming a completion with result <= 0 for a slot in
\* RecvInProgress pushes one recv on the same slot, with iov_len = mtu and
\* msg_namelen = the size of the address storage; the slot stays in
\* RecvInProgress, and no stats counter changes nor is access_step called.
C16_FailedRecvResubmitted ==
  [][(/\ Consumes
      /\ socks[eloc.i].state_buf[HeadCqe.slot] = "RecvInProgress"
      /\ HeadCqe.result <= 0) =>
       LET index == HeadCqe.slot
           sk2 == socks'[eloc.i]
       IN /\ PushesOne("RecvMsg", index)
          /\ sk2.iovec_buf[index].iov_len = sk2.mtu
          /\ sk2.msghdr_buf[index].msg_namelen = SOCKADDR_STORAGE_SIZE
          /\ sk2.state_buf[index] = "RecvInProgress"
          /\ steps_buf' = steps_buf
          /\ calls' = calls
          /\ pc' = pc]_vars

\* In a debug build: a recv outstanding under a tag issued after those of
\* the pre-posted recvs, on a slot that never received a datagram.
C16_Witness ==
  \E r \in DOMAIN socks : \E i \in Slots(ring_size) :
    /\ socks[r].debug
    /\ socks[r].sockaddr_buf[i] = 0
    /\ \E k \in OfSlot(socks[r].ring.sq, i) :
         /\ socks[r].ring.sq[k].op = "RecvMsg"
         /\ socks[r].ring.sq[k].user_data >= nb_recv

\* C17: consuming a completion with result n > 0 for a slot in
\* RecvInProgress sets the slot's iov_len to n, zeroes the control fields
\* and the flags, pushes exactly one send on the same slot, whose msghdr
\* still names the slot's own address buffer (with the address and length
\* the kernel captured) and the slot's own packet buffer, and the slot
\* becomes SendInProgress.
C17_RecvEchoed ==
  [][(/\ Consumes
      /\ socks[eloc.i].state_buf[HeadCqe.slot] = "RecvInProgress"
      /\ HeadCqe.result > 0) =>
       LET index == HeadCqe.slot
           sk == socks[eloc.i]
           sk2 == socks'[eloc.i]
           hdr == sk2.msghdr_buf[index]
       IN /\ PushesOne("SendMsg", index)
          /\ sk2.iovec_buf[index].iov_len = HeadCqe.result
          /\ sk2.iovec_buf[index].iov_base = index
          /\ hdr.msg_control = 0
          /\ hdr.msg_controllen = 0
          /\ hdr.msg_flags = {}
          /\ hdr.msg_name = index
          /\ hdr.msg_iov = index
          /\ hdr.msg_namelen = sk.msghdr_buf[index].msg_namelen
          /\ hdr.msg_namelen = SOCKADDR_IN_SIZE
          /\ sk2.sockaddr_buf[index] = sk.sockaddr_buf[index]
          /\ sk2.state_buf[index] = "SendInProgress"]_vars

\* A send outstanding for a datagram shorter than the mtu that the kernel
\* had flagged on receipt or not.
C17_Witness ==
  \E r \in DOMAIN socks : \E i \in Slots(ring_size) :
    /\ socks[r].state_buf[i] = "SendInProgress"
    /\ Outstanding(socks[r], i, {"SendMsg"}) = 1
    /\ socks[r].iovec_buf[i].iov_len < socks[r].mtu
    /\ socks[r].sockaddr_buf[i] # 0

C19_RingFullReported ==
  [][last_err'[eloc'.i] # NoErr =>
       /\ last_err'[eloc'.i] =
            <<"IoUringFull", eloc'.op, eloc'.index,
              socks[eloc'.i].ring.cap>>
       /\ socks'[eloc'.i].state_buf = socks[eloc'.i].state_buf
       /\ socks'[eloc'.i].nb_active_recv = socks[eloc'.i].nb_active_recv
       /\ socks'[eloc'.i].request_tags = socks[eloc'.i].request_tags]_vars

C22_CodecRoundTrip ==
  (codec.at = "parsed" /\ Len(codec.buffer) >= PACKET_HEAD_SIZE) =>
    /\ codec.hdr.ok
    /\ codec.hdr.index = codec.index
    /\ codec.hdr.send_time = codec.send_time

\* A header with multi-byte fields that differ, read back from a buffer that
\* carries payload after it.
C22_Witness ==
  /\ codec.at = "parsed"
  /\ Len(codec.buffer) > PACKET_HEAD_SIZE
  /\ codec.hdr.ok
  /\ codec.index >= 65536
  /\ codec.send_time \in 256..65535

\* C27: the sendmmsg helper hands the kernel each record once, in order,
\* never one the kernel has accepted; it returns Ok only when all n records
\* were accepted, returns the error of the first failing call without calling
\* again, and makes at most n kernel calls.
C27_SendmmsgHelper ==
  /\ mm.accepted = [j \in 1..(mm.n - mm.rest) |-> j]
  /\ mm.calls <= mm.n
  /\ mm.res = "Ok" => (mm.at = "returned" /\ mm.rest = 0)
  /\ mm.res \in SendErrors =>
       (mm.at = "returned" /\ mm.calls <= Len(mm.accepted) + 1)
  /\ mm.at = "loop" =>
       (mm.res = "none" /\ mm.rest > 0 /\ mm.calls <= Len(mm.accepted))
  /\ mm.at = "returned" => mm.res \in SendErrors \cup {"Ok"}

\* The helper has returned Ok after several calls that each took only a part
\* of what was left.
C27_Witness ==
  /\ mm.at = "returned"
  /\ mm.res = "Ok"
  /\ mm.n >= 4
  /\ mm.calls \in 3..(mm.n - 1)

(***************************************************************************)
(* Properties of the CSV sink and of the constructor.                      *)
(***************************************************************************)
\* C23: the file starts with the header time, tx_packets, rx_packets,
\* rx_packets_sent_here, total_latency_sent_here, and holds after it one row
\* per step given to the writer, of these five fields in this order.
C23_CsvFiveColumns ==
  csv.open =>
    /\ Len(csv.lines) = 1 + Len(csv.given)
    /\ csv.lines[1] = <<"time", "tx_packets", "rx_packets",
                        "rx_packets_sent_here", "total_latency_sent_here">>
    /\ \A i \in 1..Len(csv.given) :
         csv.lines[i + 1] = <<csv.given[i].time,
                              csv.given[i].stat.tx_packets,
                              csv.given[i].stat.rx_packets,
                              csv.given[i].stat.rx_packets_sent_here,
                              csv.given[i].stat.total_latency_sent_here>>

\* The quotient rounded up.
CeilDiv(a, b) == (a + b - 1) \div b

\* C24: the constructor stores eviction_steps_to_keep =
\* ceil(evict_threshold / step_size) + 1, whether or not the threshold is a
\* multiple of the step size.
C24_KeepIsCeilPlusOne ==
  eviction_steps_to_keep = CeilDiv(evict_threshold, step_size) + 1

(***************************************************************************)
(* Concurrent updates of one window.                                       *)
(***************************************************************************)
\* What the closure f adds to counter c.
RECURSIVE DeltaOf(_, _)
DeltaOf(f, c) ==
  IF f = <<>> THEN 0
  ELSE (IF Head(f).c = c THEN Head(f).d ELSE 0) + DeltaOf(Tail(f), c)

\* The sum, over the threads of T whose one call returned true for step i, of
\* what their closures add to counter c.
RECURSIVE SumDeltas(_, _, _)
SumDeltas(T, i, c) ==
  IF T = {} THEN 0
  ELSE LET t == CHOOSE x \in T : TRUE
       IN (IF calls[t] = 1 /\ ret[t] = "true" /\ Target(t) = i
             THEN DeltaOf(arg_f[t], c) ELSE 0)
          + SumDeltas(T \ {t}, i, c)

\* C25: when concurrent access_step calls on steps of the window (one call
\* per thread, counters at zero before) have all returned, every counter of
\* every step is the sum of the deltas of the calls that returned true: no
\* increment is lost.
C25_NoLostIncrement ==
  (/\ NoCallInProgress
   /\ \A t \in Threads : calls[t] <= 1 /\ ret[t] \in {"none", "true", "false"})
    => \A k \in 1..Len(steps_buf) : \A c \in Counters :
         steps_buf[k][c] = SumDeltas(Threads, steps_buf[k].abs, c)

\* Two calls on the same step have returned true, each having added to the
\* same two counters.
C25_Witness ==
  /\ NoCallInProgress
  /\ \A t \in Callers :
       /\ calls[t] = 1
       /\ ret[t] = "true"
       /\ Target(t) = Target(1)
       /\ arg_f[t] = RxSentHere(1)
  /\ \E k \in 1..Len(steps_buf) :
       /\ steps_buf[k].abs = Target(1)
       /\ steps_buf[k].rx_packets_sent_here = NumCallers

(***************************************************************************)
(* Properties of the transmitters of syscall_sendrecv.                     *)
(***************************************************************************)
\* C26: the indices carried by the packets one transmitter thread hands to
\* the kernel are strictly increasing in the order it hands them over, on
\* the single-packet path and on the batch path, inside a batch and from one
\* batch to the next.
C26_IndicesIncrease ==
  \A t \in Threads : \A i, j \in 1..Len(wire[t]) :
    i < j => wire[t][i] < wire[t][j]

\* One transmitter has handed over two whole batches of more than one
\* packet.
C26_Witness ==
  \E t \in Threads :
    /\ batch_size > 1
    /\ Len(wire[t]) = MaxTxBatches * batch_size

\* C28: with batch_size > 1, tx_packets of every step is a multiple of
\* batch_size in every reachable state.
C28_TxMultipleOfBatch ==
  batch_size > 1 =>
    \A k \in 1..Len(steps_buf) : steps_buf[k].tx_packets % batch_size = 0

\* Two batches of more than one packet have been counted in the same step.
C28_Witness ==
  /\ batch_size > 1
  /\ \E k \in 1..Len(steps_buf) :
       steps_buf[k].tx_packets = MaxTxBatches * batch_size

(***************************************************************************)
(* Properties of the receiver of syscall_sendrecv.                         *)
(***************************************************************************)
\* The recv result r, obtained at recv_time, is one the receiver has to
\* discard: the recv failed, the length is not packet_size, the header does
\* not parse, or the header's send_time is after recv_time.
Rejected(r, recv_time) ==
  \/ ~r.ok
  \/ r.size # packet_size
  \/ ~ParsePacket(0, r.data).ok
  \/ ParsePacket(0, r.data).send_time > recv_time

\* C29: when the receiver has to discard what recv returned, it changes no
\* counter, starts no access_step call, and goes back to the top of its
\* loop.
C29_DiscardChangesNothing ==
  [][\A t \in Threads :
       (/\ epc[t] = "rx_check"
        /\ epc'[t] # "rx_check"
        /\ Rejected(loc[t].recv, loc[t].recv_time)) =>
         /\ epc'[t] = "rx_loop"
         /\ pc'[t] = "idle"
         /\ calls'[t] = calls[t]
         /\ steps_buf' = steps_buf]_vars

\* The receiver is back at the top of its loop without having called
\* access_step, after it was given the short datagram, the long one, the one
\* stamped in the future and a failed recv.
C29_Witness ==
  \E t \in Threads :
    /\ ~IsTx(t)
    /\ epc[t] = "rx_loop"
    /\ calls[t] = 0
    /\ so_error[SockOf(t)] = "none"
    /\ net[SockOf(t)] \subseteq {p \in Foreign(packet_size) :
                                  /\ Len(p) = packet_size
                                  /\ ParsePacket(0, p).send_time <= MaxTime}
    /\ loc[t].recv_time = 0
    /\ now > 0

\* The sum of counter c over the window's steps from position k on.
RECURSIVE SumFrom(_, _)
SumFrom(k, c) ==
  IF k > Len(steps_buf) THEN 0 ELSE steps_buf[k][c] + SumFrom(k + 1, c)

\* C30: each of the receiver's two access_step calls for an accepted
\* datagram applies its update (rx_packets of the step of recv_time, then
\* rx_packets_sent_here and total_latency_sent_here of the step of
\* send_time), so that between two datagrams the sum of rx_packets_sent_here
\* over the steps equals the sum of rx_packets.
C30_AcceptedCounted ==
  [][\A t \in Threads :
       ~IsTx(t) =>
         /\ (pc[t] \notin {"idle", "dead"} /\ pc'[t] \in {"idle", "dead"})
              => ret'[t] = "true"
         /\ (epc'[t] = "rx_loop" /\ pc'[t] = "idle")
              => SumFrom(1, "rx_packets_sent_here")'
                   = SumFrom(1, "rx_packets")']_vars

(***************************************************************************)
(* Properties of the io_uring echo engine's main loop.                     *)
(***************************************************************************)
\* C31: consuming a recv completion with result > 0 starts one access_step
\* that adds 1 to rx_packets of the current step, consuming a send
\* completion starts one that adds 1 to tx_packets, and each of these calls
\* applies its update (returns true), so that the counters equal the numbers
\* of completions consumed.
C31_CompletionsCounted ==
  [][/\ (/\ Consumes
         /\ socks[eloc.i].state_buf[HeadCqe.slot] = "RecvInProgress"
         /\ HeadCqe.result > 0) =>
          /\ calls'[1] = calls[1] + 1
          /\ arg_f'[1] = RxBump
          /\ arg_time'[1] = now
     /\ (/\ Consumes
         /\ socks[eloc.i].state_buf[HeadCqe.slot] = "SendInProgress") =>
          /\ calls'[1] = calls[1] + 1
          /\ arg_f'[1] = TxBump(1)
          /\ arg_time'[1] = now
     /\ (pc[1] \notin {"idle", "dead"} /\ pc'[1] \in {"idle", "dead"}) =>
          ret'[1] = "true"]_vars

\* C32: once check_cq has returned an Err for a ring (a kernel failure of
\* submit or squeue_wait, or IoUringFull from a push), the main loop does
\* not go back to servicing rings: the engine is handing the error to its
\* caller or has terminated.
C32_RingErrorEndsEngine ==
  \A r \in DOMAIN last_err :
    last_err[r] # NoErr => epc[1] \in {"echo_submit", "echo_failed"}

\* C33: when iouring_echo has set up a ring, exactly the slots
\* 0..nb_recv-1 have one recv outstanding each and nothing else is
\* outstanding, these slots are RecvInProgress, nb_active_recv = nb_recv,
\* and none of the pushes failed with IoUringFull.
C33_PrePosted ==
  [][(epc[1] = "echo_setup" /\ Len(socks') = Len(socks) + 1) =>
       LET sk == socks'[Len(socks')]
       IN /\ last_err'[Len(socks')][1] # "IoUringFull"
          /\ sk.nb_active_recv = nb_recv
          /\ \A i \in Slots(ring_size) :
               /\ Outstanding(sk, i, {"RecvMsg"}) = IF i < nb_recv THEN 1 ELSE 0
               /\ Outstanding(sk, i, {"SendMsg"}) = 0
               /\ i < nb_recv => sk.state_buf[i] = "RecvInProgress"]_vars

\* A ring of the largest size set up with every slot pre-posted, before the
\* kernel has completed anything.
C33_Witness ==
  /\ epc[1] = "cq_loop"
  /\ nb_cqe = 0
  /\ nb_recv = MaxRingSize
  /\ socks[1].nb_active_recv = MaxRingSize
  /\ \A i \in Slots(ring_size) : Outstanding(socks[1], i, {"RecvMsg"}) = 1

C38_CheckCqNeverFull ==
  epc[1] \in {"cq_loop", "cq_push_recv", "echo_submit"} =>
    \A r \in DOMAIN last_err : last_err[r][1] # "IoUringFull"

\* check_cq has pushed a send into the last free entry of the submission
\* queue: the queue is full, holding the echo of one slot behind the
\* pre-posted recv of the other.
C38_Witness ==
  \E r \in DOMAIN socks :
    /\ epc[1] = "cq_loop"
    /\ last_err[r] = NoErr
    /\ socks[r].ring.cap = MaxRingSize
    /\ Len(socks[r].ring.sq) = socks[r].ring.cap
    /\ \E k \in 1..Len(socks[r].ring.sq) : socks[r].ring.sq[k].op = "SendMsg"

(***************************************************************************)
(* Properties of the aggregator under concurrent and repeated calls.       *)
(***************************************************************************)
\* C36: once two or more threads have called access_step and every call
\* has completed, the window is dense and every caller's update was either
\* applied exactly once, to the step of its time, which the window holds,
\* or reported stale (false, f not invoked, step below first_step_idx).
C36_ConcurrentExtension ==
  (NoCallInProgress /\ Cardinality({t \in Threads : calls[t] > 0}) >= 2) =>
    /\ \A k \in 1..Len(steps_buf) : steps_buf[k].abs = first_step_idx + k - 1
    /\ \A t \in Threads :
         Done(t) =>
           \/ /\ ret[t] = "true"
              /\ f_calls[t] = 1
              /\ f_target[t] = Target(t)
              /\ Target(t) < first_step_idx + Len(steps_buf)
           \/ /\ ret[t] = "false"
              /\ f_calls[t] = 0
              /\ Target(t) < first_step_idx

\* C37: first_step_idx never decreases, no step with an index below it
\* appears in the window, and once an access_step has returned false for a
\* time, a call for the same or an earlier time that completes afterwards
\* returns false too, without invoking f.
C37_StaleStaysStale ==
  [][/\ first_step_idx' >= first_step_idx
     /\ \A k \in 1..Len(steps_buf') : steps_buf'[k].abs >= first_step_idx
     /\ \A t, u \in Threads :
          (/\ u # t
           /\ Done(u)
           /\ ret[u] = "false"
           /\ pc[t] = "locked"
           /\ pc'[t] # "locked"
           /\ arg_time[t] <= arg_time[u]) =>
            /\ ret'[t] = "false"
            /\ f_calls'[t] = 0]_vars

\* Two calls were refused as stale, the one for the earlier time being a
\* thread's second call.
C37_Witness ==
  \E t, u \in Threads :
    /\ u # t
    /\ Done(u)
    /\ ret[u] = "false"
    /\ Done(t)
    /\ calls[t] = MaxCalls
    /\ ret[t] = "false"
    /\ arg_time[t] < arg_time[u]

(***************************************************************************)
(* Properties relating the transmitter's header and its statistics.        *)
(***************************************************************************)
\* The packets of the batch thread t is sending or has just sent, as they
\* went out on the sockets.
BatchOnWire(t) ==
  {p \in UNION {net[s] : s \in Socks} :
     ParsePacket(0, p).index \in loc[t].ind..(loc[t].ind + batch_size - 1)}

\* C40: when a transmitter's update adds to tx_packets of a step, that step
\* is the one containing the send_time in the header of every packet of the
\* batch being counted, and the time given to access_step is that send_time.
C40_TxStepIsHeaderStep ==
  [][\A t \in Threads :
       (/\ IsTx(t)
        /\ pc[t] = "in_f"
        /\ (pc'[t] # pc[t] \/ f_pos'[t] # f_pos[t])) =>
         \A k \in 1..Len(steps_buf) :
           steps_buf'[k].tx_packets # steps_buf[k].tx_packets =>
             \A p \in BatchOnWire(t) :
               /\ ParsePacket(0, p).send_time = arg_time[t]
               /\ StepOf(ParsePacket(0, p).send_time, step_size)
                    = steps_buf[k].abs]_vars

\* A batch of two packets stamped at time 1 went out whole, the clock moved
\* on, and the batch was counted in the step of time 1, not the first step.
C40_Witness ==
  \E t \in Threads :
    /\ IsTx(t)
    /\ batch_size = MaxBatch
    /\ Cardinality(BatchOnWire(t)) = MaxBatch
    /\ loc[t].time = 1
    /\ now > 1
    /\ step_size = 1
    /\ ret[t] = "true"
    /\ f_target[t] = 1
    /\ steps_buf[2].tx_packets = MaxBatch

(***************************************************************************)
(* Properties of the syscall echo engine.                                  *)
(***************************************************************************)
\* C39: in every reachable state every step has tx_packets <= rx_packets;
\* an echo thread's access_step is for the receive time of its datagram,
\* with a closure adding 1 to rx_packets and, only if the sendto succeeded,
\* 1 to tx_packets; a failed recvfrom starts no call and changes no counter.
C39_TxLeRx ==
  /\ [](\A k \in 1..Len(steps_buf) :
          steps_buf[k].tx_packets <= steps_buf[k].rx_packets)
  /\ [][\A t \in Threads :
          /\ (epc[t] = "se_stat" /\ epc'[t] # "se_stat") =>
               /\ loc[t].recv.ok
               /\ arg_time'[t] = loc[t].recv_time
               /\ arg_f'[t] = IF loc[t].res = "Ok"
                                THEN <<[c |-> "rx_packets", d |-> 1],
                                       [c |-> "tx_packets", d |-> 1]>>
                                ELSE <<[c |-> "rx_packets", d |-> 1]>>
          /\ (epc[t] = "se_recv" /\ loc'[t] # loc[t] /\ ~loc'[t].recv.ok) =>
               /\ epc'[t] = "se_recv"
               /\ calls' = calls
               /\ steps_buf' = steps_buf]_vars

\* Two threads are inside their closures on the same step, each having
\* counted its datagram and not yet its echo.
C39_Witness ==
  \E t, u \in Threads :
    /\ t # u
    /\ pc[t] = "in_f" /\ f_pos[t] = 2
    /\ pc[u] = "in_f" /\ f_pos[u] = 2
    /\ f_target[t] = f_target[u]
    /\ \E k \in 1..Len(steps_buf) :
         /\ steps_buf[k].abs = f_target[t]
         /\ steps_buf[k].rx_packets = 2
         /\ steps_buf[k].tx_packets = 0

====
